---- MODULE Spec2Model ----
(***************************************************************************)
(* A model of the deb2arch conversion engine (src/deb2arch/converter.py,   *)
(* src/deb2arch/utils.py) and of its callers (main.py run_cli, gui.py).    *)
(* Strings are TLA+ strings handled character by                            *)
(* character (SubSeq on a string gives a string), so the text functions    *)
(* are computed the way the Python code computes them.                      *)
(***************************************************************************)
EXTENDS Integers, Sequences, FiniteSets, TLC

VARIABLES
    phase,      \* position of the modelled call: "call" before, "done" after
    arg,        \* the input of the call under study
    ret,        \* its result (None before the call)
    files,      \* the filesystem entries made below the extraction destination
    nread,      \* safe_extract_tar: the number of tar members the loop has taken
    pc,         \* convert / inspect_metadata: the stage the call is at
    input_format,   \* what validate_input_file returned: "deb" or "tarball"
    temp_dir,   \* the workspace of the call: "none", "exists" or "removed"
    metadata,   \* the PackageMetadata parsed by the call (None before)
    artifact,   \* the package file _convert_with_debtap picked (None before)
    package_path,   \* who built the package the call holds: None, "debtap", "manual", "tarball"
    used_debtap,    \* the flag of that name in convert
    verdict,    \* what _debtap_output_is_usable answered: None, "trusted", "rejected"
    err,        \* the exception under way or raised (None when there is none)
    cleanups,   \* the number of cleanup_dir calls the call has made on its workspace
    trace,      \* the external commands launched, in order
    stages,     \* the stages the call has started, in order
    releases,   \* the number of cleanup_workspace calls the caller has made
    _busy,      \* gui.py: Deb2ArchWindow._busy
    deb_path,   \* gui.py: Deb2ArchWindow.deb_path (None until a file is chosen)
    install_sensitive,  \* gui.py: whether install_button can be clicked
    idle_queue, \* gui.py: the callbacks handed to GLib.idle_add, not yet dispatched
    threads,    \* gui.py: the worker threads started so far, each with its position
    dialogs,    \* gui.py: the modal dialogs open on the main thread, innermost last
    main_loop   \* gui.py: "running" until Gtk.main_quit, then "quit"

\* the variables of the orchestrated calls (convert, inspect_metadata)
orch == <<pc, input_format, temp_dir, metadata, artifact, package_path, used_debtap,
          verdict, err, cleanups, trace, stages, releases>>

\* the variables of the GTK window (gui.py)
gui == <<_busy, deb_path, install_sensitive, idle_queue, threads, dialogs, main_loop>>

vars == <<phase, arg, ret, files, nread, orch, gui>>

None == "<none>"

\* the window is not part of the call under study
GuiIdle ==
    /\ _busy = FALSE /\ deb_path = None /\ install_sensitive = FALSE
    /\ idle_queue = <<>> /\ threads = <<>> /\ dialogs = <<>> /\ main_loop = "none"

(***************************************************************************)
(* Characters and strings.                                                 *)
(***************************************************************************)
Char(s, i) == SubSeq(s, i, i)

LowerLetters == "abcdefghijklmnopqrstuvwxyz"
UpperLetters == "ABCDEFGHIJKLMNOPQRSTUVWXYZ"
Digits == "0123456789"

CharIn(c, str) == \E i \in 1..Len(str) : Char(str, i) = c

\* the characters of a string, as a set
CharSet(str) == {Char(str, i) : i \in 1..Len(str)}

DigitChars == CharSet(Digits)
AlphaChars == CharSet(LowerLetters) \cup CharSet(UpperLetters)

IsDigit(c) == c \in DigitChars
IsAlpha(c) == c \in AlphaChars
IsSpace(c) == c \in {" ", "\t", "\n", "\r"}

\* str.lower() on the upper-case letters (ASCII)
LowerTable ==
    [c \in CharSet(UpperLetters) |->
        Char(LowerLetters, CHOOSE i \in 1..Len(UpperLetters) : Char(UpperLetters, i) = c)]

\* str.lower() on one character
LowerChar(c) == IF c \in DOMAIN LowerTable THEN LowerTable[c] ELSE c

RECURSIVE MapRange(_, _, _, _)
\* the character map F applied to s[lo..hi] (halving, so that long strings stay shallow)
MapRange(F(_), s, lo, hi) ==
    IF lo > hi THEN ""
    ELSE IF lo = hi THEN F(Char(s, lo))
    ELSE MapRange(F, s, lo, (lo + hi) \div 2) \o MapRange(F, s, (lo + hi) \div 2 + 1, hi)

\* apply the character map F to every character of s
MapChars(F(_), s) == MapRange(F, s, 1, Len(s))

\* str.lower()
Lower(s) == MapChars(LowerChar, s)

\* str.startswith / str.endswith
StartsWith(s, p) == Len(s) >= Len(p) /\ SubSeq(s, 1, Len(p)) = p
EndsWith(s, p) == Len(s) >= Len(p) /\ SubSeq(s, Len(s) - Len(p) + 1, Len(s)) = p

\* `sub in s`
Contains(s, sub) ==
    \E i \in 1..(Len(s) - Len(sub) + 1) : SubSeq(s, i, i + Len(sub) - 1) = sub

\* str.find: position of the first occurrence of the character c, 0 when absent
Find(s, c) ==
    IF CharIn(c, s) THEN CHOOSE i \in 1..Len(s) : Char(s, i) = c /\ \A j \in 1..(i - 1) : Char(s, j) # c
    ELSE 0

\* str.rfind for one character
RFind(s, c) ==
    IF CharIn(c, s) THEN CHOOSE i \in 1..Len(s) : Char(s, i) = c /\ \A j \in (i + 1)..Len(s) : Char(s, j) # c
    ELSE 0

RECURSIVE LStrip(_, _)
\* str.lstrip(chars)
LStrip(s, chars) ==
    IF Len(s) > 0 /\ CharIn(Char(s, 1), chars) THEN LStrip(SubSeq(s, 2, Len(s)), chars) ELSE s

RECURSIVE RStrip(_, _)
\* str.rstrip(chars)
RStrip(s, chars) ==
    IF Len(s) > 0 /\ CharIn(Char(s, Len(s)), chars) THEN RStrip(SubSeq(s, 1, Len(s) - 1), chars) ELSE s

\* str.strip(chars)
Strip(s, chars) == RStrip(LStrip(s, chars), chars)

Whitespace == " \t\n\r"

\* str.strip()
StripWs(s) == Strip(s, Whitespace)

RECURSIVE Join(_, _)
\* sep.join(parts)
Join(parts, sep) ==
    IF Len(parts) = 0 THEN ""
    ELSE IF Len(parts) = 1 THEN parts[1]
    ELSE parts[1] \o sep \o Join(Tail(parts), sep)

\* position of the k-th occurrence of the character sep in s; 0 for k = 0 and
\* Len(s) + 1 past the last one
SepPos(s, sep, k) ==
    LET pos == {i \in 1..Len(s) : Char(s, i) = sep}
    IN IF k = 0 THEN 0
       ELSE IF k > Cardinality(pos) THEN Len(s) + 1
       ELSE CHOOSE i \in pos : Cardinality({j \in pos : j < i}) = k - 1

\* str.split(sep) for a one-character separator
Split(s, sep) ==
    [k \in 1..(Cardinality({i \in 1..Len(s) : Char(s, i) = sep}) + 1) |->
        SubSeq(s, SepPos(s, sep, k - 1) + 1, SepPos(s, sep, k) - 1)]

\* [x for x in seq if x]
NonEmpty(seq) == SelectSeq(seq, LAMBDA x : x # "")

\* the printable ASCII characters in code-point order (Python compares str by code
\* point); the backquote, which a TLA+ string cannot hold, is left out
AsciiPrintable == " !\"#$%&'()*+,-./0123456789:;<=>?@ABCDEFGHIJKLMNOPQRSTUVWXYZ[\\]^_abcdefghijklmnopqrstuvwxyz{|}~"

OrdTable ==
    [c \in CharSet(AsciiPrintable) |->
        CHOOSE i \in 1..Len(AsciiPrintable) : Char(AsciiPrintable, i) = c]

\* ord(c), up to a shift
Ord(c) == OrdTable[c]

RECURSIVE StrLess(_, _)
\* a < b on str
StrLess(a, b) ==
    IF Len(b) = 0 THEN FALSE
    ELSE IF Len(a) = 0 THEN TRUE
    ELSE IF Char(a, 1) = Char(b, 1) THEN StrLess(SubSeq(a, 2, Len(a)), SubSeq(b, 2, Len(b)))
    ELSE Ord(Char(a, 1)) < Ord(Char(b, 1))

RECURSIVE Sorted(_)
\* sorted(S) for a set of strings S
Sorted(S) ==
    IF S = {} THEN <<>>
    ELSE LET m == CHOOSE x \in S : \A y \in S \ {x} : StrLess(x, y)
         IN <<m>> \o Sorted(S \ {m})

\* set(seq)
ToSet(seq) == {seq[i] : i \in 1..Len(seq)}

(***************************************************************************)
(* utils.py: sanitize_package_name, sanitize_pkgver, parse_debian_depends  *)
(***************************************************************************)
PkgNameExtra == "@._+-"
PkgVerExtra == ".+_"

\* re.sub(r"[^a-zA-Z0-9@._+-]", "-", name), one character
PkgNameChar(c) == IF IsAlpha(c) \/ IsDigit(c) \/ CharIn(c, PkgNameExtra) THEN c ELSE "-"

\* sanitize_package_name without .strip("-._")
SanitizePackageNameNoStrip(name) ==
    LET cleaned == Lower(MapChars(PkgNameChar, name))
    IN IF cleaned = "" THEN "unknown-package" ELSE cleaned

sanitize_package_name(name) ==
    LET cleaned == Lower(Strip(MapChars(PkgNameChar, name), "-._"))
    IN IF cleaned = "" THEN "unknown-package" ELSE cleaned

\* version.split(":", 1)[-1]
AfterFirstColon(v) == IF Find(v, ":") = 0 THEN v ELSE SubSeq(v, Find(v, ":") + 1, Len(v))

\* line.split("=", 1)[1]
AfterFirstEquals(v) == IF Find(v, "=") = 0 THEN v ELSE SubSeq(v, Find(v, "=") + 1, Len(v))

\* the character rule with the colon left in place
PkgVerCharKeepsColon(c) ==
    IF c = ":" THEN ":"
    ELSE IF c = "~" \/ c = "-" THEN "."
    ELSE IF IsAlpha(c) \/ IsDigit(c) \/ CharIn(c, PkgVerExtra) THEN c ELSE "."

\* .replace("~", ".").replace("-", ".") then re.sub(r"[^a-zA-Z0-9.+_]", ".", ...), one character
PkgVerChar(c) ==
    IF c = "~" \/ c = "-" THEN "."
    ELSE IF IsAlpha(c) \/ IsDigit(c) \/ CharIn(c, PkgVerExtra) THEN c ELSE "."

RECURSIVE CollapseDots(_)
\* re.sub(r"\.+", ".", s)
CollapseDots(s) ==
    IF Len(s) < 2 THEN s
    ELSE IF Char(s, 1) = "." /\ Char(s, 2) = "." THEN CollapseDots(SubSeq(s, 2, Len(s)))
    ELSE Char(s, 1) \o CollapseDots(SubSeq(s, 2, Len(s)))

sanitize_pkgver(version) ==
    IF version = "" THEN "0"
    ELSE LET no_epoch == AfterFirstColon(version)
             cleaned == Strip(CollapseDots(MapChars(PkgVerChar, no_epoch)), ".")
         IN IF cleaned = "" THEN "0" ELSE cleaned

\* length of the match of r"\s*\(.*?\)" at the start of s, 0 when it does not match there
\* ("." does not match a newline)
ParenMatchLen(s) ==
    LET ws == Len(s) - Len(LStrip(s, Whitespace))
        rest == SubSeq(s, ws + 1, Len(s))
        close == Find(rest, ")")
    IN IF Len(rest) > 0 /\ Char(rest, 1) = "(" /\ close > 0
          /\ ~CharIn("\n", SubSeq(rest, 1, close))
       THEN ws + close ELSE 0

RECURSIVE StripParens(_)
\* re.sub(r"\s*\(.*?\)", "", s)
StripParens(s) ==
    IF Len(s) = 0 THEN ""
    ELSE IF ParenMatchLen(s) > 0 THEN StripParens(SubSeq(s, ParenMatchLen(s) + 1, Len(s)))
    ELSE Char(s, 1) \o StripParens(SubSeq(s, 2, Len(s)))

\* one item of the Depends field with its version constraint left in
DependsItemKeepsVersion(raw_item) ==
    LET item == StripWs(raw_item)
        preferred_alt == StripWs(Split(item, "|")[1])
    IN IF item = "" THEN "" ELSE StripWs(Split(preferred_alt, ":")[1])

\* one item of the Depends field: first alternative, no version, no arch qualifier
DependsItem(raw_item) ==
    LET item == StripWs(raw_item)
        preferred_alt == StripWs(Split(item, "|")[1])
        no_version == StripWs(StripParens(preferred_alt))
    IN IF item = "" THEN "" ELSE StripWs(Split(no_version, ":")[1])

RECURSIVE MapSeq(_, _)
MapSeq(F(_), seq) == IF Len(seq) = 0 THEN <<>> ELSE <<F(Head(seq))>> \o MapSeq(F, Tail(seq))

parse_debian_depends(depends_field) ==
    IF depends_field = "" THEN <<>>
    ELSE NonEmpty(MapSeq(DependsItem, Split(depends_field, ",")))

(***************************************************************************)
(* converter.py: the translation tables                                    *)
(***************************************************************************)
SUPPORTED_TARBALL_SUFFIXES == <<".tar.gz", ".tgz">>

DEBIAN_TO_ARCH_DEP_MAP ==
    ("adduser" :> "shadow") @@ ("ca-certificates" :> "ca-certificates") @@
    ("gcc-12-base" :> "gcc-libs") @@ ("libasound2" :> "alsa-lib") @@
    ("libatk1.0-0" :> "atk") @@ ("libatk-bridge2.0-0" :> "at-spi2-core") @@
    ("libbz2-1.0" :> "bzip2") @@ ("libc6" :> "glibc") @@ ("libcurl4" :> "curl") @@
    ("libdbus-1-3" :> "dbus") @@ ("libexpat1" :> "expat") @@
    ("libfontconfig1" :> "fontconfig") @@ ("libfreetype6" :> "freetype2") @@
    ("libgcc-s1" :> "gcc-libs") @@ ("libgdk-pixbuf-2.0-0" :> "gdk-pixbuf2") @@
    ("libglib2.0-0" :> "glib2") @@ ("libgtk-3-0" :> "gtk3") @@ ("libnss3" :> "nss") @@
    ("libnspr4" :> "nspr") @@ ("libnotify4" :> "libnotify") @@
    ("libpango-1.0-0" :> "pango") @@ ("libpulse0" :> "libpulse") @@
    ("libssl3" :> "openssl") @@ ("libstdc++6" :> "gcc-libs") @@
    ("libuuid1" :> "util-linux-libs") @@ ("libx11-6" :> "libx11") @@
    ("libxcomposite1" :> "libxcomposite") @@ ("libxcursor1" :> "libxcursor") @@
    ("libxdamage1" :> "libxdamage") @@ ("libxext6" :> "libxext") @@
    ("libxfixes3" :> "libxfixes") @@ ("libxi6" :> "libxi") @@
    ("libxrandr2" :> "libxrandr") @@ ("libxrender1" :> "libxrender") @@
    ("libxtst6" :> "libxtst") @@ ("python3" :> "python") @@
    ("python3-gi" :> "python-gobject") @@ ("xdg-utils" :> "xdg-utils") @@
    ("zlib1g" :> "zlib")

PASSTHROUGH_DEPENDENCIES ==
    {"bash", "coreutils", "curl", "dbus", "file", "findutils", "glib2", "grep", "gzip",
     "libx11", "openssl", "sed", "tar", "util-linux", "which", "xz", "zstd"}

(***************************************************************************)
(* converter.py: _map_architecture, _map_dependencies                      *)
(***************************************************************************)
ArchMapping ==
    ("all" :> "any") @@ ("amd64" :> "x86_64") @@ ("arm64" :> "aarch64") @@
    ("armhf" :> "armv7h") @@ ("i386" :> "i686")

_map_architecture(deb_arch) ==
    LET arch == Lower(StripWs(deb_arch))
    IN IF arch \in DOMAIN ArchMapping THEN ArchMapping[arch]
       ELSE IF arch # "" THEN arch ELSE "any"

\* re.sub(r"\d+$", "", key).rstrip("-")
SonameGuess(key) == RStrip(RStrip(key, Digits), "-")

\* the loop body without the soname guess
MapOneDependencyNoGuess(dep) ==
    LET key == Lower(dep)
    IN IF key \in DOMAIN DEBIAN_TO_ARCH_DEP_MAP THEN <<"mapped", DEBIAN_TO_ARCH_DEP_MAP[key]>>
       ELSE IF key \in PASSTHROUGH_DEPENDENCIES THEN <<"mapped", key>>
       ELSE <<"unmapped", dep>>

\* the loop body of _map_dependencies: <<list the name goes to, name appended>>
MapOneDependency(dep) ==
    LET key == Lower(dep)
        soname_guess == SonameGuess(key)
    IN IF key \in DOMAIN DEBIAN_TO_ARCH_DEP_MAP THEN <<"mapped", DEBIAN_TO_ARCH_DEP_MAP[key]>>
       ELSE IF key \in PASSTHROUGH_DEPENDENCIES THEN <<"mapped", key>>
       ELSE IF soname_guess \in PASSTHROUGH_DEPENDENCIES THEN <<"mapped", soname_guess>>
       ELSE <<"unmapped", dep>>

\* the names the loop appended to the list `which`
Appended(dependencies, which) ==
    {MapOneDependency(dependencies[i])[2] :
        i \in {j \in 1..Len(dependencies) : MapOneDependency(dependencies[j])[1] = which}}

\* the loop without the `continue` after a table hit: a translated name whose own
\* spelling is no passthrough name is reported as unmapped too
MapDependenciesNoContinue(dependencies) ==
    [mapped |-> Sorted(Appended(dependencies, "mapped")),
     unmapped |-> Sorted(Appended(dependencies, "unmapped")
                    \cup {dependencies[i] : i \in {j \in 1..Len(dependencies) :
                            Lower(dependencies[j]) \in DOMAIN DEBIAN_TO_ARCH_DEP_MAP
                            /\ Lower(dependencies[j]) \notin PASSTHROUGH_DEPENDENCIES}})]

\* the mapper without `sorted(set(...))`: the two lists as the loop appended to them
MapDependenciesAsAppended(dependencies) ==
    [mapped |-> MapSeq(LAMBDA d : MapOneDependency(d)[2],
                       SelectSeq(dependencies, LAMBDA d : MapOneDependency(d)[1] = "mapped")),
     unmapped |-> SelectSeq(dependencies, LAMBDA d : MapOneDependency(d)[1] = "unmapped")]

_map_dependencies(dependencies) ==
    [mapped |-> Sorted(Appended(dependencies, "mapped")),
     unmapped |-> Sorted(Appended(dependencies, "unmapped"))]

(***************************************************************************)
(* converter.py: _strip_archive_suffix, _parse_tarball_metadata            *)
(***************************************************************************)
\* Path(filename).stem: the name without its last suffix
Stem(filename) ==
    LET dot == RFind(filename, ".")
    IN IF dot > 1 /\ dot < Len(filename) THEN SubSeq(filename, 1, dot - 1) ELSE filename

_strip_archive_suffix(filename) ==
    LET lowered == Lower(filename)
    IN IF EndsWith(lowered, SUPPORTED_TARBALL_SUFFIXES[1])
       THEN SubSeq(filename, 1, Len(filename) - Len(SUPPORTED_TARBALL_SUFFIXES[1]))
       ELSE IF EndsWith(lowered, SUPPORTED_TARBALL_SUFFIXES[2])
       THEN SubSeq(filename, 1, Len(filename) - Len(SUPPORTED_TARBALL_SUFFIXES[2]))
       ELSE Stem(filename)

\* one character of the re.split(r"[-_]+", ...) separator class, as "-"
DashChar(c) == IF c = "_" THEN "-" ELSE c

\* a split on hyphens only: r"-+" in place of r"[-_]+"
NameTokensHyphenOnly(base_name) == NonEmpty(Split(base_name, "-"))

\* [token for token in re.split(r"[-_]+", base_name) if token]
NameTokens(base_name) == NonEmpty(Split(MapChars(DashChar, base_name), "-"))

HasDigit(token) == \E i \in 1..Len(token) : IsDigit(Char(token, i))

\* next((idx for idx, token in enumerate(tokens) if any digit), None); 0-based, -1 for None
VersionIndex(tokens) ==
    IF \E i \in 1..Len(tokens) : HasDigit(tokens[i])
    THEN (CHOOSE i \in 1..Len(tokens) :
            HasDigit(tokens[i]) /\ \A j \in 1..(i - 1) : ~HasDigit(tokens[j])) - 1
    ELSE -1

\* `a or b` that never takes b
OrElseFirst(a, b) == a

\* `a or b` on str
OrElse(a, b) == IF a # "" THEN a ELSE b

TarballArchitecture(base_name) ==
    LET lower_name == Lower(base_name)
    IN IF \E marker \in {"x86_64", "amd64", "x64"} : Contains(lower_name, marker) THEN "x86_64"
       ELSE IF \E marker \in {"aarch64", "arm64"} : Contains(lower_name, marker) THEN "aarch64"
       ELSE IF \E marker \in {"i386", "i686"} : Contains(lower_name, marker) THEN "i686"
       ELSE "any"

_parse_tarball_metadata(source_name) ==
    LET base_name == _strip_archive_suffix(source_name)
        tokens == NameTokens(base_name)
        version_index == VersionIndex(tokens)
    IN [package |->
            IF version_index = -1 THEN sanitize_package_name(base_name)
            ELSE sanitize_package_name(OrElse(Join(SubSeq(tokens, 1, version_index), "-"), base_name)),
        version |->
            IF version_index = -1 THEN "1.0.0"
            ELSE sanitize_pkgver(OrElse(Join(SubSeq(tokens, version_index + 1, Len(tokens)), "-"), "1.0.0")),
        architecture |-> TarballArchitecture(base_name),
        maintainer |-> "Unknown",
        depends_raw |-> "",
        dependencies |-> <<>>,
        mapped_dependencies |-> <<>>,
        unmapped_dependencies |-> <<>>,
        source_format |-> "tarball"]

(***************************************************************************)
(* converter.py: _parse_control_metadata                                   *)
(***************************************************************************)
\* key, value = line.split(":", 1)
BeforeFirstColon(line) == SubSeq(line, 1, Find(line, ":") - 1)

RECURSIVE ControlFields(_, _, _)
\* the loop over the control lines: fields is the dict built so far (a function from
\* keys to values), current_key the key open to continuation lines (None at first)
ControlFields(lines, fields, current_key) ==
    IF Len(lines) = 0 THEN fields
    ELSE LET line == Head(lines)
             rest == Tail(lines)
             normalized_key == Lower(StripWs(BeforeFirstColon(line)))
         IN IF StripWs(line) = "" THEN ControlFields(rest, fields, current_key)
            ELSE IF IsSpace(Char(line, 1)) /\ current_key # None /\ current_key # ""
            THEN ControlFields(rest,
                    [fields EXCEPT ![current_key] = StripWs(@ \o " " \o StripWs(line))],
                    current_key)
            ELSE IF ~CharIn(":", line) THEN ControlFields(rest, fields, current_key)
            ELSE ControlFields(rest,
                    (normalized_key :> StripWs(AfterFirstColon(line))) @@ fields,
                    normalized_key)

\* fields.get that takes an empty value for a missing one
GetEmptyAsMissing(fields, key, default) ==
    IF key \in DOMAIN fields /\ fields[key] # "" THEN fields[key] ELSE default

\* fields.get(key, default)
Get(fields, key, default) == IF key \in DOMAIN fields THEN fields[key] ELSE default

\* control_lines is control_text.splitlines()
_parse_control_metadata(control_lines, source_name) ==
    LET fields == ControlFields(control_lines, <<>>, None)
        depends_raw == Get(fields, "depends", "")
        dependencies == parse_debian_depends(depends_raw)
        deps == _map_dependencies(dependencies)
    IN [package |-> sanitize_package_name(Get(fields, "package", Stem(source_name))),
        version |-> sanitize_pkgver(Get(fields, "version", "0")),
        architecture |-> _map_architecture(Get(fields, "architecture", "any")),
        description |-> Get(fields, "description", "Converted Debian package"),
        maintainer |-> Get(fields, "maintainer", "Unknown"),
        depends_raw |-> depends_raw,
        dependencies |-> dependencies,
        mapped_dependencies |-> deps.mapped,
        unmapped_dependencies |-> deps.unmapped,
        source_format |-> "deb"]

(***************************************************************************)
(* converter.py: _parse_pkginfo_dependencies (the text part),              *)
(* _dependency_base, _debtap_output_is_usable                              *)
(***************************************************************************)
\* the dependency a .PKGINFO line declares, "" when it declares none
PkginfoLineDep(line) ==
    IF StartsWith(line, "depend = ") THEN StripWs(AfterFirstEquals(line)) ELSE ""

\* the `depend = ...` entries of an artifact: has_member tells whether the archive
\* holds a .PKGINFO member (a regular file), lines is its text.splitlines()
PkginfoDependencies(has_member, lines) ==
    IF ~has_member THEN <<>> ELSE NonEmpty(MapSeq(PkginfoLineDep, lines))

RelationChars == "<>="

\* position of the first relation character of dep, Len(dep) + 1 when it has none
FirstRelation(dep) ==
    IF \E i \in 1..Len(dep) : CharIn(Char(dep, i), RelationChars)
    THEN CHOOSE i \in 1..Len(dep) :
            /\ CharIn(Char(dep, i), RelationChars)
            /\ \A j \in 1..(i - 1) : ~CharIn(Char(dep, j), RelationChars)
    ELSE Len(dep) + 1

\* re.split(r"[<>=]+", dep, maxsplit=1)[0].strip().lower()
_dependency_base(dep) == Lower(StripWs(SubSeq(dep, 1, FirstRelation(dep) - 1)))

\* re.search(r"\d+\.\d", base)
HasDigitDotDigit(base) ==
    \E i \in 1..(Len(base) - 2) :
        IsDigit(Char(base, i)) /\ Char(base, i + 1) = "." /\ IsDigit(Char(base, i + 2))

\* re.search(r"\d+\.", base)
HasDigitDot(base) ==
    \E i \in 1..(Len(base) - 1) : IsDigit(Char(base, i)) /\ Char(base, i + 1) = "."

\* the four tests of the loop over zip(deps, dep_bases)
IsSuspicious(dep) ==
    LET base == _dependency_base(dep)
        has_relation == FirstRelation(dep) <= Len(dep)
    IN \/ base = ""
       \/ Len(base) <= 1 /\ has_relation
       \/ CharIn(".", base) /\ HasDigitDotDigit(base)
       \/ StartsWith(base, "lib") /\ HasDigitDot(base)

\* len(suspicious_dependencies)
SuspiciousCount(deps) == Cardinality({i \in 1..Len(deps) : IsSuspicious(deps[i])})

\* expected.intersection(dep_bases)
Overlap(deps, expected) == expected \cap {_dependency_base(deps[i]) : i \in 1..Len(deps)}

\* the validator with the first cutoff off by one: suspicious > 4
DebtapOutputIsUsableOffByOne(deps, mapped_dependencies) ==
    LET expected == ToSet(mapped_dependencies)
        overlap == Overlap(deps, expected)
        suspicious == SuspiciousCount(deps)
    IN IF Len(deps) = 0 THEN TRUE
       ELSE IF suspicious > 4 THEN FALSE
       ELSE IF expected # {} /\ Cardinality(expected) >= 4 /\ Cardinality(overlap) < 2
               /\ suspicious >= 2 THEN FALSE
       ELSE IF expected # {} /\ 4 * Cardinality(overlap) < Cardinality(expected)
               /\ suspicious >= 3 THEN FALSE
       ELSE TRUE

\* the validator with the third test dropped
DebtapOutputIsUsableNoRatio(deps, mapped_dependencies) ==
    LET expected == ToSet(mapped_dependencies)
        overlap == Overlap(deps, expected)
        suspicious == SuspiciousCount(deps)
    IN IF Len(deps) = 0 THEN TRUE
       ELSE IF suspicious >= 4 THEN FALSE
       ELSE IF expected # {} /\ Cardinality(expected) >= 4 /\ Cardinality(overlap) < 2
               /\ suspicious >= 2 THEN FALSE
       ELSE TRUE

\* the validator with the second test taken on overlap alone, whatever the
\* suspicious count
DebtapOutputIsUsableOverlapOnly(deps, mapped_dependencies) ==
    LET expected == ToSet(mapped_dependencies)
        overlap == Overlap(deps, expected)
        suspicious == SuspiciousCount(deps)
    IN IF Len(deps) = 0 THEN TRUE
       ELSE IF suspicious >= 4 THEN FALSE
       ELSE IF expected # {} /\ Cardinality(expected) >= 4 /\ Cardinality(overlap) < 2
       THEN FALSE
       ELSE IF expected # {} /\ 4 * Cardinality(overlap) < Cardinality(expected)
               /\ suspicious >= 3 THEN FALSE
       ELSE TRUE

\* deps: the artifact's declared dependencies; mapped_dependencies: metadata's list
_debtap_output_is_usable(deps, mapped_dependencies) ==
    LET expected == ToSet(mapped_dependencies)
        overlap == Overlap(deps, expected)
        suspicious == SuspiciousCount(deps)
    IN IF Len(deps) = 0 THEN TRUE
       ELSE IF suspicious >= 4 THEN FALSE
       ELSE IF expected # {} /\ Cardinality(expected) >= 4 /\ Cardinality(overlap) < 2
               /\ suspicious >= 2 THEN FALSE
       \* len(overlap) / max(len(expected), 1) < 0.25
       ELSE IF expected # {} /\ 4 * Cardinality(overlap) < Cardinality(expected)
               /\ suspicious >= 3 THEN FALSE
       ELSE TRUE

(***************************************************************************)
(* utils.py: _is_safe_tar_target, _extract_regular_file, safe_extract_tar  *)
(*                                                                         *)
(* A path is the tuple of its components below "/".  A filesystem is a set *)
(* of entries [path, kind, mode, src]: kind is "dir" or "file", mode the   *)
(* permission bits, src the type of the tar member whose extraction made   *)
(* the entry.  The directories above the destination exist and are         *)
(* writable; the process is unprivileged (makepkg refuses to run as root). *)
(***************************************************************************)
IsPrefix(p, q) == Len(p) <= Len(q) /\ SubSeq(q, 1, Len(p)) = p

Prefixes(p) == {SubSeq(p, 1, k) : k \in 0..Len(p)}

\* str(path)
PathStr(p) == IF Len(p) = 0 THEN "/" ELSE "/" \o Join(p, "/")

RECURSIVE Walk(_, _)
\* (path / name).resolve(): "" and "." components drop, ".." climbs (not above "/");
\* extraction makes no symbolic link, so there is none to follow
Walk(path, comps) ==
    IF Len(comps) = 0 THEN path
    ELSE IF Head(comps) = "" \/ Head(comps) = "." THEN Walk(path, Tail(comps))
    ELSE IF Head(comps) = ".."
    THEN Walk(IF Len(path) = 0 THEN path ELSE SubSeq(path, 1, Len(path) - 1), Tail(comps))
    ELSE Walk(Append(path, Head(comps)), Tail(comps))

\* (destination / member_name.lstrip("/")).resolve()
TargetPath(destination, member_name) == Walk(destination, Split(LStrip(member_name, "/"), "/"))

\* the prefix test without the separator: startswith(str(destination_root))
IsSafeTarTargetNoSep(destination, member_name) ==
    LET target_path == TargetPath(destination, member_name)
    IN \/ StartsWith(PathStr(target_path), PathStr(destination))
       \/ target_path = destination

_is_safe_tar_target(destination, member_name) ==
    LET target_path == TargetPath(destination, member_name)
    IN \/ StartsWith(PathStr(target_path), PathStr(destination) \o "/")
       \/ target_path = destination

\* permission bits of the owner
CanRead(mode) == (mode \div 256) % 2 = 1
CanWrite(mode) == (mode \div 128) % 2 = 1
CanSearch(mode) == (mode \div 64) % 2 = 1

\* modes of a directory and of a file created under the usual umask 022
NewDirMode == 7 * 64 + 5 * 8 + 5
NewFileMode == 6 * 64 + 4 * 8 + 4

Has(fs, p) == \E e \in fs : e.path = p
EntryAt(fs, p) == CHOOSE e \in fs : e.path = p

\* what is at path p: "dir", "file" or "absent"
KindAt(fs, destination, p) ==
    IF Has(fs, p) THEN EntryAt(fs, p).kind
    ELSE IF IsPrefix(p, destination) THEN "dir" ELSE "absent"

ModeAt(fs, p) == IF Has(fs, p) THEN EntryAt(fs, p).mode ELSE NewDirMode

Parent(p) == SubSeq(p, 1, Len(p) - 1)

\* the directories path.mkdir(parents=True) has to make
MissingDirs(fs, destination, path) == {p \in Prefixes(path) : KindAt(fs, destination, p) = "absent"}

\* whether path.mkdir(parents=True, exist_ok=True) raises OSError: a file on the way
\* or at the path, a directory on the way that cannot be searched, or a first
\* missing directory whose parent cannot be written
MkdirFails(fs, destination, path) ==
    \/ \E p \in Prefixes(path) : KindAt(fs, destination, p) = "file"
    \/ \E p \in Prefixes(path) \ {path} :
          KindAt(fs, destination, p) = "dir" /\ ~CanSearch(ModeAt(fs, p))
    \/ \E p \in MissingDirs(fs, destination, path) :
          /\ KindAt(fs, destination, Parent(p)) = "dir"
          /\ ~CanWrite(ModeAt(fs, Parent(p)))

\* the filesystem after a successful path.mkdir(parents=True, exist_ok=True)
Mkdir(fs, destination, path, src) ==
    fs \cup {[path |-> p, kind |-> "dir", mode |-> NewDirMode, src |-> src] :
                p \in MissingDirs(fs, destination, path)}

\* path.chmod(mode), done only `if mode:`
Chmod(fs, path, mode) ==
    IF mode = 0 \/ ~Has(fs, path) THEN fs
    ELSE {IF e.path = path THEN [e EXCEPT !.mode = mode] ELSE e : e \in fs}

\* whether target.open("wb") raises OSError: the target is a directory, an existing
\* file that cannot be written, or a new file in a directory that cannot be written
OpenFails(fs, destination, target) ==
    \/ KindAt(fs, destination, target) = "dir"
    \/ KindAt(fs, destination, target) = "file" /\ ~CanWrite(ModeAt(fs, target))
    \/ KindAt(fs, destination, target) = "absent" /\ ~CanWrite(ModeAt(fs, Parent(target)))
    \/ ~CanSearch(ModeAt(fs, Parent(target)))

\* the filesystem after target.open("wb") and the copy: a new file, or the old one
\* truncated and rewritten
WriteFile(fs, target, src) ==
    IF Has(fs, target) THEN fs
    ELSE fs \cup {[path |-> target, kind |-> "file", mode |-> NewFileMode, src |-> src]}

\* _extract_regular_file: [fs, err]
_extract_regular_file(fs, member, destination) ==
    LET target == TargetPath(destination, member.name)
        made == Mkdir(fs, destination, Parent(target), member.type)
    IN IF MkdirFails(fs, destination, Parent(target)) THEN [fs |-> fs, err |-> "OSError"]
       ELSE IF OpenFails(made, destination, target) THEN [fs |-> made, err |-> "OSError"]
       ELSE [fs |-> Chmod(WriteFile(made, target, member.type), target, member.mode % 512),
             err |-> None]

\* tarfile's member tests
issym(member) == member.type = "sym"
islnk(member) == member.type = "lnk"
isdev(member) == member.type \in {"chr", "blk", "fifo"}
isfifo(member) == member.type = "fifo"
isdir(member) == member.type = "dir"
isfile(member) == member.type = "file"

\* the loop body without the hard-link test, with every member that is no directory
\* written like a regular file
MemberActionLinkAsFile(member) ==
    IF issym(member) \/ isdev(member) \/ isfifo(member) THEN "skip"
    ELSE IF isdir(member) THEN "dir"
    ELSE "file"

\* what the loop body of safe_extract_tar does with a member whose path is safe:
\* "skip" (link, device, FIFO), "dir", "file" or "unsupported"
MemberAction(member) ==
    IF issym(member) \/ islnk(member) \/ isdev(member) \/ isfifo(member) THEN "skip"
    ELSE IF isdir(member) THEN "dir"
    ELSE IF isfile(member) THEN "file"
    ELSE "unsupported"

\* one iteration of the loop of safe_extract_tar: [fs, err]
ExtractMember(fs, member, destination) ==
    LET target == TargetPath(destination, member.name)
    IN IF ~_is_safe_tar_target(destination, member.name)
       THEN [fs |-> fs, err |-> "ConversionError"]
       ELSE IF MemberAction(member) = "dir"
       THEN IF MkdirFails(fs, destination, target) THEN [fs |-> fs, err |-> "OSError"]
            ELSE [fs |-> Chmod(Mkdir(fs, destination, target, member.type), target,
                               member.mode % 512),
                  err |-> None]
       ELSE IF MemberAction(member) = "file" THEN _extract_regular_file(fs, member, destination)
       ELSE [fs |-> fs, err |-> None]

\* destination.mkdir(parents=True, exist_ok=True) on a fresh destination
DestinationMade(destination) ==
    {[path |-> destination, kind |-> "dir", mode |-> NewDirMode, src |-> "destination"]}

RECURSIVE ExtractFrom(_, _, _)
\* the loop of safe_extract_tar from the filesystem fs on: [fs, err]
ExtractFrom(fs, members, destination) ==
    IF Len(members) = 0 THEN [fs |-> fs, err |-> None]
    ELSE LET step == ExtractMember(fs, Head(members), destination)
         IN IF step.err # None THEN step ELSE ExtractFrom(step.fs, Tail(members), destination)

\* safe_extract_tar(tar, destination): [fs, err]
safe_extract_tar(members, destination) ==
    ExtractFrom(DestinationMade(destination), members, destination)

\* shutil.rmtree(root) fails when it meets a directory it cannot list, or a
\* directory with entries that it cannot write or search
RmtreeFails(fs) ==
    \E d \in fs :
        /\ d.kind = "dir"
        /\ \/ ~CanRead(d.mode)
           \/ /\ \E e \in fs : e.path # d.path /\ IsPrefix(d.path, e.path)
              /\ ~(CanWrite(d.mode) /\ CanSearch(d.mode))

\* cleanup_dir that leaves the directory in place
CleanupDirKeeps(dir, fs, privileged) == dir

\* cleanup_dir without the `except FileNotFoundError` clause
CleanupDirRaisesWhenMissing(dir, fs, privileged) == dir # "exists"

\* cleanup_dir(path): the state of the directory afterwards.  A directory that is
\* not there is left alone (FileNotFoundError, return); rmtree of a tree that the
\* process cannot take apart raises, the error is logged and swallowed, and the
\* directory stays.  privileged: the process overrides permission bits (root)
cleanup_dir(dir, fs, privileged) ==
    IF dir # "exists" THEN dir
    ELSE IF ~privileged /\ RmtreeFails(fs) THEN "exists"
    ELSE "removed"

\* whether an exception leaves cleanup_dir: FileNotFoundError makes it return,
\* every other Exception of rmtree is logged and dropped
CleanupDirRaises(dir, fs, privileged) == FALSE

(***************************************************************************)
(* converter.py: validate_input_file, _open_tar_archive                    *)
(***************************************************************************)
\* Path(name).suffix
Suffix(filename) ==
    LET dot == RFind(filename, ".")
    IN IF dot > 1 /\ dot < Len(filename) THEN SubSeq(filename, dot, Len(filename)) ELSE ""

\* the suffix test without .lower()
IsDebFileExactCase(name) == Suffix(name) = ".deb"

_is_deb_file(name) == Lower(Suffix(name)) = ".deb"

_is_tarball_file(name) ==
    \E i \in 1..Len(SUPPORTED_TARBALL_SUFFIXES) : EndsWith(Lower(name), SUPPORTED_TARBALL_SUFFIXES[i])

\* "deb", "tarball", or the error raised
_detect_input_format(name) ==
    IF _is_deb_file(name) THEN "deb"
    ELSE IF _is_tarball_file(name) THEN "tarball"
    ELSE "ConversionError"

\* file: [name, is_file, magic_ok, is_tar, ...]; "deb", "tarball", or the error raised
validate_input_file(file) ==
    IF ~file.is_file THEN "ConversionError"
    ELSE IF _detect_input_format(file.name) = "deb"
    THEN IF ~file.magic_ok THEN "ConversionError" ELSE "deb"
    ELSE IF _detect_input_format(file.name) = "tarball"
    THEN IF ~file.is_tar THEN "ConversionError" ELSE "tarball"
    ELSE "ConversionError"

\* archive_path.name.endswith(".tar.zst") or archive_path.suffix == ".zst"
IsZstName(name) == EndsWith(name, ".tar.zst") \/ Suffix(name) = ".zst"

\* _open_tar_archive up to its yield: native tells whether tarfile.open(mode="r:*")
\* reads the archive, has_zstd whether zstd is on PATH, zstd_ok whether zstd exits 0,
\* plain_tar whether the decompressed file opens as a tar stream.  The result: res is
\* "open" (the archive is handed to the caller) or the error raised; cmds are the
\* commands launched
_open_tar_archive(name, native, has_zstd, zstd_ok, plain_tar) ==
    IF native THEN [res |-> "open", cmds |-> <<>>]
    ELSE IF IsZstName(name)
    THEN IF ~has_zstd THEN [res |-> "ConversionError", cmds |-> <<>>]
         ELSE IF ~zstd_ok THEN [res |-> "CommandExecutionError", cmds |-> <<"zstd">>]
         ELSE IF ~plain_tar THEN [res |-> "ReadError", cmds |-> <<"zstd">>]
         ELSE [res |-> "open", cmds |-> <<"zstd">>]
    ELSE [res |-> "ConversionError", cmds |-> <<>>]

\* the ways the environment lets _open_tar_archive end for an archive of that name
OpenOutcomes(name) ==
    {_open_tar_archive(name, n, h, z, t) : n \in BOOLEAN, h \in BOOLEAN, z \in BOOLEAN, t \in BOOLEAN}

\* next((line.strip() for line in listing if line.startswith(prefix)), None), "" for None
FirstMember(listing, prefix) ==
    IF \E i \in 1..Len(listing) : StartsWith(listing[i], prefix)
    THEN StripWs(listing[CHOOSE i \in 1..Len(listing) :
                    /\ StartsWith(listing[i], prefix)
                    /\ \A j \in 1..(i - 1) : ~StartsWith(listing[j], prefix)])
    ELSE ""

\* the orchestrator at rest: no convert or inspect_metadata call is under way
OrchIdle ==
    /\ pc = "idle" /\ input_format = None /\ temp_dir = "none" /\ metadata = None
    /\ artifact = None /\ package_path = None /\ used_debtap = FALSE /\ verdict = None
    /\ err = None /\ cleanups = 0 /\ trace = <<>> /\ stages = <<>> /\ releases = 0
    /\ GuiIdle

(***************************************************************************)
(* Tarball metadata inference: _parse_tarball_metadata on a file name.     *)
(***************************************************************************)
TarballStems == {"myapp", "My_App", "tool2", ""}
TarballVersions == {"-2.0.1", "_1:2~rc1", "-v", ""}
TarballArchs == {"-x86_64", "-arm64", "_i386", ""}
TarballSuffixes == {".tar.gz", ".tgz", ".TGZ"}

TarballNames ==
    {a \o b \o c \o d : a \in TarballStems, b \in TarballVersions,
                        c \in TarballArchs, d \in TarballSuffixes}

InitName ==
    /\ phase = "call" /\ arg \in TarballNames /\ ret = None
    /\ files = {} /\ nread = 0 /\ OrchIdle

ParseTarballMetadata ==
    /\ phase = "call"
    /\ ret' = _parse_tarball_metadata(arg)
    /\ phase' = "done"
    /\ UNCHANGED <<arg, files, nread, orch, gui>>

NextName == ParseTarballMetadata

SpecName == InitName /\ [][NextName]_vars

ScenarioB == "myapp-2.0.1-x86_64.tar.gz"

\* C5 as stated: the tarball named myapp-2.0.1-x86_64.tar.gz yields package "myapp",
\* version "2.0.1" and architecture "x86_64".
C5_AsStated ==
    (phase = "done" /\ arg = ScenarioB) =>
        ret.package = "myapp" /\ ret.version = "2.0.1" /\ ret.architecture = "x86_64"

\* C5 amended: the tarball named myapp-2.0.1-x86_64.tar.gz yields package "myapp" and
\* architecture "x86_64", and the version is made of every token from the first one
\* with a digit on, the architecture tokens included: "2.0.1.x86.64".
C5_ScenarioB ==
    (phase = "done" /\ arg = ScenarioB) =>
        ret.package = "myapp" /\ ret.version = "2.0.1.x86.64" /\ ret.architecture = "x86_64"

C5_Witness == phase = "done" /\ arg = ScenarioB /\ ret.source_format = "tarball"

\* the tokens of the name of the call, its base name, and the index of the first
\* token with a digit (-1 when there is none)
ArgBase == _strip_archive_suffix(arg)
ArgTokens == NameTokens(ArgBase)
ArgVersionIndex == VersionIndex(ArgTokens)

\* C25 as stated: with the first token holding a digit at index i, the package name
\* is the sanitized join of the tokens before i and the version the sanitized join
\* of the tokens from i on; with no such token the package name is the sanitized
\* base name and the version 1.0.0.  The package name is never empty.
C25_AsStated ==
    phase = "done" =>
        /\ ArgVersionIndex = -1 =>
              ret.package = sanitize_package_name(ArgBase) /\ ret.version = "1.0.0"
        /\ ArgVersionIndex >= 0 =>
              /\ ret.package =
                    sanitize_package_name(Join(SubSeq(ArgTokens, 1, ArgVersionIndex), "-"))
              /\ ret.version =
                    sanitize_pkgver(Join(SubSeq(ArgTokens, ArgVersionIndex + 1,
                                                Len(ArgTokens)), "-"))
        /\ ret.package # ""

\* C25, corrected: as stated when a token before the first one with a digit exists.
\* When the first token itself holds a digit there is no token before it, and the
\* package name is the sanitized whole base name (the version is still the sanitized
\* join of all tokens).  The package name is never empty.
C25_FirstTokenDigitUsesBaseName ==
    phase = "done" =>
        /\ ArgVersionIndex = -1 =>
              ret.package = sanitize_package_name(ArgBase) /\ ret.version = "1.0.0"
        /\ ArgVersionIndex = 0 =>
              /\ ret.package = sanitize_package_name(ArgBase)
              /\ ret.version = sanitize_pkgver(Join(ArgTokens, "-"))
        /\ ArgVersionIndex > 0 =>
              /\ ret.package =
                    sanitize_package_name(Join(SubSeq(ArgTokens, 1, ArgVersionIndex), "-"))
              /\ ret.version =
                    sanitize_pkgver(Join(SubSeq(ArgTokens, ArgVersionIndex + 1,
                                                Len(ArgTokens)), "-"))
        /\ ret.package # ""

\* the first token holds a digit: the whole base name becomes the package name
C25_Witness ==
    /\ phase = "done" /\ arg = "tool2-2.0.1.tar.gz"
    /\ ret.package = "tool2-2.0.1" /\ ret.version = "tool2.2.0.1"

(***************************************************************************)
(* The dependency mapper: _map_dependencies on a parsed dependency list.   *)
(***************************************************************************)
MaxDeps == 3

DepNames == {"libc6", "glibc", "libcurl4", "curl", "Curl", "tar-2", "libfoo2", "zstd1-"}

SeqsUpTo(S, n) == UNION {[1..k -> S] : k \in 0..n}

InitMap ==
    /\ phase = "call" /\ arg \in SeqsUpTo(DepNames, MaxDeps) /\ ret = None
    /\ files = {} /\ nread = 0 /\ OrchIdle

MapDependencies ==
    /\ phase = "call"
    /\ ret' = _map_dependencies(arg)
    /\ phase' = "done"
    /\ UNCHANGED <<arg, files, nread, orch, gui>>

NextMap == MapDependencies

SpecMap == InitMap /\ [][NextMap]_vars

\* C6 as stated: the sets of mapped and unmapped are disjoint and their union equals
\* the set of the input names.
C6_AsStated ==
    phase = "done" =>
        /\ ToSet(ret.mapped) \cap ToSet(ret.unmapped) = {}
        /\ ToSet(ret.mapped) \cup ToSet(ret.unmapped) = ToSet(arg)

\* the rule (1 table, 2 passthrough, 3 soname guess, 0 none) that applies first to
\* the name d, and the name it gives
RuleOf(d) ==
    IF Lower(d) \in DOMAIN DEBIAN_TO_ARCH_DEP_MAP THEN 1
    ELSE IF Lower(d) \in PASSTHROUGH_DEPENDENCIES THEN 2
    ELSE IF RStrip(RStrip(Lower(d), "0123456789"), "-") \in PASSTHROUGH_DEPENDENCIES THEN 3
    ELSE 0

TargetOf(d) ==
    IF RuleOf(d) = 1 THEN DEBIAN_TO_ARCH_DEP_MAP[Lower(d)]
    ELSE IF RuleOf(d) = 2 THEN Lower(d)
    ELSE RStrip(RStrip(Lower(d), "0123456789"), "-")

\* C6 amended: the mapper splits the input names, not the output names: unmapped is
\* exactly the set of input names no rule applies to, and mapped is exactly the set
\* of target names of the other input names (translated, lower-cased or stripped),
\* so every input name goes to exactly one list; the two output sets need not be
\* disjoint and their union need not be the input.
C6_Partition ==
    phase = "done" =>
        /\ ToSet(ret.unmapped) = {d \in ToSet(arg) : RuleOf(d) = 0}
        /\ ToSet(ret.mapped) = {TargetOf(d) : d \in {x \in ToSet(arg) : RuleOf(x) # 0}}

\* a list with a translated name and the name it translates to: the output sets meet
C6_Witness ==
    /\ phase = "done" /\ arg = <<"libc6", "glibc">>
    /\ ret.mapped = <<"glibc">> /\ ret.unmapped = <<"glibc">>

\* the rule the claim's wording gives a name taken as it is written: 1 exact table
\* hit, 2 passthrough hit, 3 passthrough hit after stripping, 0 none
StatedRule(d) ==
    IF d \in DOMAIN DEBIAN_TO_ARCH_DEP_MAP THEN 1
    ELSE IF d \in PASSTHROUGH_DEPENDENCIES THEN 2
    ELSE IF SonameGuess(d) \in PASSTHROUGH_DEPENDENCIES THEN 3
    ELSE 0

StatedTarget(d) ==
    IF StatedRule(d) = 1 THEN DEBIAN_TO_ARCH_DEP_MAP[d]
    ELSE IF StatedRule(d) = 2 THEN d
    ELSE SonameGuess(d)

\* C13 as stated: each name, as written, is classified by the first of the four
\* rules that applies: a rule 1, 2 or 3 name contributes the table's target, the
\* name itself or the stripped name to mapped, any other name goes to unmapped.
C13_AsStated ==
    phase = "done" =>
        \A i \in 1..Len(arg) :
            IF StatedRule(arg[i]) = 0
            THEN arg[i] \in ToSet(ret.unmapped)
            ELSE StatedTarget(arg[i]) \in ToSet(ret.mapped) /\ arg[i] \notin ToSet(ret.unmapped)

\* C13, corrected: the rules are applied to the lower-cased name.  For every name d
\* of the list with key k = lower(d): k in the table puts the table's target in
\* mapped; else k in the passthrough set puts k in mapped; else k without its
\* trailing digits and then its trailing hyphens, if in the passthrough set, puts
\* that stripped key in mapped; in these three cases d is not reported in unmapped;
\* else d, as written, is in unmapped.  Nothing else is in either list, and the
\* mapper gives a result for every list.
C13_FirstRuleOnLowerCased ==
    phase = "done" =>
        /\ \A i \in 1..Len(arg) :
              LET d == arg[i]
                  k == Lower(d)
                  g == SonameGuess(k)
              IN /\ k \in DOMAIN DEBIAN_TO_ARCH_DEP_MAP =>
                        DEBIAN_TO_ARCH_DEP_MAP[k] \in ToSet(ret.mapped)
                 /\ (k \notin DOMAIN DEBIAN_TO_ARCH_DEP_MAP /\ k \in PASSTHROUGH_DEPENDENCIES) =>
                        k \in ToSet(ret.mapped)
                 /\ (/\ k \notin DOMAIN DEBIAN_TO_ARCH_DEP_MAP
                     /\ k \notin PASSTHROUGH_DEPENDENCIES
                     /\ g \in PASSTHROUGH_DEPENDENCIES) => g \in ToSet(ret.mapped)
                 /\ d \in ToSet(ret.unmapped) <=>
                        /\ k \notin DOMAIN DEBIAN_TO_ARCH_DEP_MAP
                        /\ k \notin PASSTHROUGH_DEPENDENCIES
                        /\ g \notin PASSTHROUGH_DEPENDENCIES
        /\ \A u \in ToSet(ret.unmapped) : u \in ToSet(arg)
        /\ \A m \in ToSet(ret.mapped) :
              \E i \in 1..Len(arg) :
                  \/ /\ Lower(arg[i]) \in DOMAIN DEBIAN_TO_ARCH_DEP_MAP
                     /\ m = DEBIAN_TO_ARCH_DEP_MAP[Lower(arg[i])]
                  \/ m = Lower(arg[i]) /\ m \in PASSTHROUGH_DEPENDENCIES
                  \/ m = SonameGuess(Lower(arg[i])) /\ m \in PASSTHROUGH_DEPENDENCIES

\* a capitalised passthrough name, a name that needs stripping, an unknown name
C13_Witness ==
    /\ phase = "done" /\ arg = <<"Curl", "tar-2", "libfoo2">>
    /\ ret.mapped = <<"curl", "tar">> /\ ret.unmapped = <<"libfoo2">>

\* the list is in strictly ascending order of str: ascending, no element twice
StrictlyAscending(list) ==
    \A i \in 1..Len(list) : \A j \in (i + 1)..Len(list) : StrLess(list[i], list[j])

\* C14: for every dependency list, the mapped list and the unmapped list the mapper
\* returns are each in ascending lexicographic order and hold no element twice.
C14_SortedNoRepeats ==
    phase = "done" => StrictlyAscending(ret.mapped) /\ StrictlyAscending(ret.unmapped)

\* a list given in descending order, with two spellings of one mapped name
C14_Witness ==
    /\ phase = "done" /\ arg = <<"tar-2", "curl", "Curl">>
    /\ ret.mapped = <<"curl", "tar">> /\ ret.unmapped = <<>>

(***************************************************************************)
(* The trust validator: _debtap_output_is_usable on the .PKGINFO lines of  *)
(* an artifact and the mapped dependencies of the metadata.                *)
(***************************************************************************)
MaxPkginfoLines == 4

PkginfoLines ==
    {"depend = openss.3.0.1", "depend = libfoo.2.", "depend = glibc", "depend = gtk3>=3.24",
     "depend = pytho.3", "pkgname = x"}

\* mapped_dependencies lists of sizes 0, 3, 4, 5 and 9
ExpectedLists ==
    {<<>>, <<"curl", "nss", "zlib">>, <<"curl", "glibc", "gtk3", "openssl">>,
     <<"curl", "dbus", "nss", "python", "zlib">>,
     <<"atk", "curl", "dbus", "expat", "glibc", "gtk3", "nspr", "nss", "zlib">>}

InitTrust ==
    /\ phase = "call"
    /\ arg \in {a \in [has_pkginfo : BOOLEAN,
                        pkginfo : SeqsUpTo(PkginfoLines, MaxPkginfoLines),
                        mapped : ExpectedLists] : a.has_pkginfo \/ a.pkginfo = <<>>}
    /\ ret = None
    /\ files = {} /\ nread = 0 /\ OrchIdle

DebtapOutputIsUsable ==
    /\ phase = "call"
    /\ ret' = _debtap_output_is_usable(PkginfoDependencies(arg.has_pkginfo, arg.pkginfo),
                                        arg.mapped)
    /\ phase' = "done"
    /\ UNCHANGED <<arg, files, nread, orch, gui>>

NextTrust == DebtapOutputIsUsable

SpecTrust == InitTrust /\ [][NextTrust]_vars

\* the entries an artifact declares: the text after "depend = " of its lines
Declared(pkginfo) ==
         SelectSeq([i \in 1..Len(pkginfo) |->
                        IF StartsWith(pkginfo[i], "depend = ")
                        THEN StripWs(SubSeq(pkginfo[i], Len("depend = ") + 1, Len(pkginfo[i])))
                        ELSE ""],
                   LAMBDA d : d # "")

\* a garbled entry of the two kinds: a name with a digit-dot-digit fragment
\* (openss.3.0.1), or a lib-prefixed name with a numeric dot fragment (libfoo.2.)
Garbled(entry) ==
    LET name == SubSeq(entry, 1, FirstRelation(entry) - 1)
    IN \/ \E i \in 1..(Len(name) - 2) :
            IsDigit(Char(name, i)) /\ Char(name, i + 1) = "." /\ IsDigit(Char(name, i + 2))
       \/ /\ StartsWith(name, "lib")
          /\ \E i \in 1..(Len(name) - 1) : IsDigit(Char(name, i)) /\ Char(name, i + 1) = "."

GarbledCount(pkginfo) ==
    Cardinality({i \in 1..Len(Declared(pkginfo)) : Garbled(Declared(pkginfo)[i])})

\* C9: an artifact declaring no dependency (no .PKGINFO member included) is accepted
\* whatever the expected set, and an artifact declaring at least 4 garbled entries is
\* rejected whatever the expected set.
C9_ZeroAcceptedGarbledRejected ==
    phase = "done" =>
        /\ (Len(Declared(arg.pkginfo)) = 0 => ret = TRUE)
        /\ (GarbledCount(arg.pkginfo) >= 4 => ret = FALSE)

\* four garbled entries of both kinds, against an expected set they cannot contradict
C9_Witness ==
    /\ phase = "done" /\ ret = FALSE /\ arg.mapped = <<>> /\ arg.has_pkginfo
    /\ arg.pkginfo = <<"depend = openss.3.0.1", "depend = libfoo.2.",
                       "depend = openss.3.0.1", "depend = libfoo.2.">>

\* the number of declared dependencies classified suspicious, and the number of
\* expected names equal to a declared base name
NSuspicious == SuspiciousCount(Declared(arg.pkginfo))
NOverlap == Cardinality(Overlap(Declared(arg.pkginfo), ToSet(arg.mapped)))
NExpected == Cardinality(ToSet(arg.mapped))

\* C10: with at least one declared dependency, the validator returns untrusted
\* exactly when suspicious >= 4, or |expected| >= 4 and overlap < 2 and
\* suspicious >= 2, or expected is non-empty and overlap/|expected| < 0.25 and
\* suspicious >= 3.
C10_RejectIff ==
    (phase = "done" /\ Len(Declared(arg.pkginfo)) > 0) =>
        (ret = FALSE <=>
            \/ NSuspicious >= 4
            \/ NExpected >= 4 /\ NOverlap < 2 /\ NSuspicious >= 2
            \/ NExpected > 0 /\ 4 * NOverlap < NExpected /\ NSuspicious >= 3)

\* a rejection that only the third condition decides: 3 suspicious entries against
\* an expected set of 3 names
C10_Witness ==
    /\ phase = "done" /\ ret = FALSE
    /\ NSuspicious = 3 /\ NExpected = 3 /\ NOverlap = 0

(***************************************************************************)
(* Safe tar extraction: the loop of safe_extract_tar, one member a step.   *)
(***************************************************************************)
MaxMembers == 2

Destination == <<"tmp", "deb2arch-ws", "pkgroot">>

MemberNames == {"a", "a/b", "../evil", "/etc/x", "../pkgroot2", "/../evil"}

\* rwxr-xr-x and r-xr-xr-x
MemberModes == {7 * 64 + 5 * 8 + 5, 5 * 64 + 5 * 8 + 5}

TarMembers ==
    [name : MemberNames, type : {"file", "dir"}, mode : MemberModes]
    \cup [name : {"a", "../evil"}, type : {"sym", "lnk", "chr", "blk", "fifo", "other"},
          mode : {7 * 64 + 7 * 8 + 7}]

InitTar ==
    /\ phase = "call" /\ arg \in SeqsUpTo(TarMembers, MaxMembers) /\ ret = None
    /\ files = {} /\ nread = 0 /\ OrchIdle

\* destination.mkdir(parents=True, exist_ok=True)
ExtractBegin ==
    /\ phase = "call"
    /\ files' = DestinationMade(Destination)
    /\ phase' = "loop"
    /\ UNCHANGED <<arg, ret, nread, orch, gui>>

\* one iteration of `for member in tar.getmembers()`
ExtractNext ==
    /\ phase = "loop" /\ nread < Len(arg)
    /\ LET step == ExtractMember(files, arg[nread + 1], Destination)
       IN /\ files' = step.fs
          /\ ret' = step.err
          /\ phase' = IF step.err = None THEN "loop" ELSE "raised"
    /\ nread' = nread + 1
    /\ UNCHANGED <<arg, orch, gui>>

\* the loop is over: safe_extract_tar returns
ExtractReturn ==
    /\ phase = "loop" /\ nread = Len(arg)
    /\ phase' = "done"
    /\ UNCHANGED <<arg, ret, files, nread, orch, gui>>

NextTar == ExtractBegin \/ ExtractNext \/ ExtractReturn

SpecTar == InitTar /\ [][NextTar]_vars

\* the path a member name stands for, read from the destination: absolute names are
\* taken relative to it, ".." climbs
Lands(name) == Walk(Destination, Split(LStrip(name, "/"), "/"))

\* the member name leads out of the destination root
LeavesRoot(name) == ~IsPrefix(Destination, Lands(name))

IsAbsolute(name) == Len(name) > 0 /\ Char(name, 1) = "/"

\* C7 as stated: nothing is created outside the destination root, and a member whose
\* path leaves the root through "../", or is absolute, makes safe_extract_tar raise
\* an extraction error instead of being written.
C7_AsStated ==
    /\ \A e \in files : IsPrefix(Destination, e.path)
    /\ \A i \in 1..nread :
          (LeavesRoot(arg[i].name) \/ IsAbsolute(arg[i].name)) =>
              (i = nread /\ phase = "raised" /\ ret = "ConversionError")

\* C7 amended: nothing is created outside the destination root; a member whose path
\* resolves outside the root (through "../", also behind a leading "/") makes
\* safe_extract_tar raise an extraction error at that member, which is not written;
\* an absolute path raises nothing by itself: its leading slashes are dropped and the
\* member is handled as the same path relative to the destination root.
C7_NoEscape ==
    /\ \A e \in files : IsPrefix(Destination, e.path)
    /\ \A i \in 1..nread :
          /\ LeavesRoot(arg[i].name) =>
                (i = nread /\ phase = "raised" /\ ret = "ConversionError")
          /\ (IsAbsolute(arg[i].name) /\ ~LeavesRoot(arg[i].name)
                /\ arg[i].type \in {"file", "dir"}
                /\ ~(i = nread /\ phase = "raised")) =>
                \E e \in files :
                    e.path = Lands(arg[i].name) /\ IsPrefix(Destination, e.path)

\* a traversal member stopped after an absolute member was written under the root
C7_Witness ==
    /\ phase = "raised" /\ ret = "ConversionError" /\ nread = 2
    /\ arg[1].name = "/etc/x" /\ arg[1].type = "file" /\ arg[2].name = "../evil"
    /\ \E e \in files : e.path = Destination \o <<"etc", "x">> /\ e.kind = "file"

UnsafeTypes == {"sym", "lnk", "chr", "blk", "fifo"}

\* C8: at every point of safe_extract_tar, and so when it is over with or without
\* an error, no entry of the destination was made from a symbolic-link, hard-link,
\* device or FIFO member: every entry comes from a regular file or a directory
\* member (or is the destination itself).
C8_NoUnsafeMember ==
    \A e \in files : e.src \notin UnsafeTypes /\ e.src \in {"file", "dir", "destination"}

\* an archive with a hard link and a regular file, extracted to the end
C8_Witness ==
    /\ phase = "done" /\ nread = 2
    /\ arg[1].type = "lnk" /\ arg[1].name = "a"
    /\ arg[2].type = "file" /\ arg[2].name = "a/b"
    /\ \E e \in files : e.path = Destination \o <<"a", "b">>

(***************************************************************************)
(* Version sanitizing: sanitize_pkgver applied to a version string, then   *)
(* to its own result.                                                       *)
(***************************************************************************)
MaxVerLen == 3

\* a digit, a letter, the epoch colon, the characters that become dots, a legal
\* sign and an illegal character
VerChars == {"1", "a", ":", ".", "-", "~", "+", "/"}

RECURSIVE StringsOf(_, _)
\* the strings of exactly n characters of the set chars
StringsOf(chars, n) ==
    IF n = 0 THEN {""} ELSE {c \o s : c \in chars, s \in StringsOf(chars, n - 1)}

VersionStrings == UNION {StringsOf(VerChars, n) : n \in 0..MaxVerLen}

InitVer ==
    /\ phase = "call" /\ arg \in VersionStrings /\ ret = <<>>
    /\ files = {} /\ nread = 0 /\ OrchIdle

\* sanitize_pkgver(v)
SanitizePkgver ==
    /\ phase = "call"
    /\ ret' = <<sanitize_pkgver(arg)>>
    /\ phase' = "once"
    /\ UNCHANGED <<arg, files, nread, orch, gui>>

\* sanitize_pkgver of the result
SanitizePkgverAgain ==
    /\ phase = "once"
    /\ ret' = Append(ret, sanitize_pkgver(ret[1]))
    /\ phase' = "done"
    /\ UNCHANGED <<arg, files, nread, orch, gui>>

NextVer == SanitizePkgver \/ SanitizePkgverAgain

SpecVer == InitVer /\ [][NextVer]_vars

\* C15: version sanitizing is idempotent: for every version string, the empty one,
\* those with one or several colons and those made of illegal characters only
\* included, sanitizing the sanitized string gives the sanitized string.
C15_SanitizeIdempotent ==
    phase = "done" => ret[2] = ret[1]

\* a version with two colons, of which only the first closes the epoch
C15_Witness ==
    /\ phase = "done" /\ arg = "::1"
    /\ ret = <<"1", "1">>

(***************************************************************************)
(* Control metadata: _parse_control_metadata on the lines of a control     *)
(* file, each field present, present with an empty value, or missing.      *)
(***************************************************************************)
ControlScenarioA ==
    <<"Package: libfoo-bar", "Version: 1.2.3-1", "Architecture: amd64",
      "Depends: libc6 (>= 2.34), libgtk-3-0">>

PackageLines == {<<>>, <<"Package: libfoo-bar">>, <<"Package:">>}
VersionLines == {<<>>, <<"Version: 1.2.3-1">>, <<"Version:">>}
ArchitectureLines == {<<>>, <<"Architecture: amd64">>, <<"Architecture:">>}

\* the Depends field: missing, on one line, and folded with an alternative and an
\* architecture qualifier
DependsLines ==
    {<<>>, <<"Depends: libc6 (>= 2.34), libgtk-3-0">>,
     <<"Depends: libc6 (>= 2.34),", " libgtk-3-0 | libgtk-3-1, python3:any">>}

TrailerLines ==
    {<<>>, <<"Maintainer: Jo <jo@example.org>", "", "Description: Foo", " bar">>,
     <<"Maintainer:", "Description:">>}

ControlTexts ==
    {p \o v \o a \o d \o t : p \in PackageLines, v \in VersionLines, a \in ArchitectureLines,
                             d \in DependsLines, t \in TrailerLines}

ControlSource == "libfoo-bar_1.2.3-amd64.deb"

InitControl ==
    /\ phase = "call" /\ arg \in ControlTexts /\ ret = None
    /\ files = {} /\ nread = 0 /\ OrchIdle

ParseControlMetadata ==
    /\ phase = "call"
    /\ ret' = _parse_control_metadata(arg, ControlSource)
    /\ phase' = "done"
    /\ UNCHANGED <<arg, files, nread, orch, gui>>

NextControl == ParseControlMetadata

SpecControl == InitControl /\ [][NextControl]_vars

\* C16: the control block Package: libfoo-bar, Version: 1.2.3-1, Architecture: amd64,
\* Depends: libc6 (>= 2.34), libgtk-3-0 is parsed into package "libfoo-bar", version
\* "1.2.3.1", architecture "x86_64", mapped ["glibc", "gtk3"] and unmapped [].
C16_ScenarioA ==
    (phase = "done" /\ arg = ControlScenarioA) =>
        /\ ret.package = "libfoo-bar"
        /\ ret.version = "1.2.3.1"
        /\ ret.architecture = "x86_64"
        /\ ret.mapped_dependencies = <<"glibc", "gtk3">>
        /\ ret.unmapped_dependencies = <<>>

\* the control block of scenario A has been parsed
C16_Witness ==
    /\ phase = "done" /\ arg = ControlScenarioA
    /\ ret.dependencies = <<"libc6", "libgtk-3-0">>

\* the fields of the control text of the call, as the parser collects them
ArgFields == ControlFields(arg, <<>>, None)

FieldMissing(key) == key \notin DOMAIN ArgFields
FieldEmpty(key) == key \in DOMAIN ArgFields /\ ArgFields[key] = ""

\* the value each field takes when the control text does not have it
ControlDefaults ==
    [package |-> sanitize_package_name(Stem(ControlSource)), version |-> "0",
     architecture |-> "any", description |-> "Converted Debian package",
     maintainer |-> "Unknown"]

DefaultedFields == {"package", "version", "architecture", "description", "maintainer"}

\* C26 as stated: parsing never fails; a field that is missing yields its default
\* (the base name of the source file for the package, "0", "any", the placeholder,
\* "Unknown"), and a field that is present with an empty value yields what the
\* missing field yields.
C26_AsStated ==
    phase = "done" =>
        \A key \in DefaultedFields :
            (FieldMissing(key) \/ FieldEmpty(key)) => ret[key] = ControlDefaults[key]

\* C26, corrected: parsing never fails, and a field that is missing yields its
\* default, the sanitized base name of the source file for the package.  A field
\* that is present with an empty value yields the default for Version ("0") and
\* Architecture ("any") only: an empty Package yields "unknown-package" instead of
\* the base name, and an empty Description or Maintainer stays empty.
C26_MissingDefaultsEmptyDiffers ==
    phase = "done" =>
        /\ \A key \in DefaultedFields : FieldMissing(key) => ret[key] = ControlDefaults[key]
        /\ FieldEmpty("version") => ret.version = "0"
        /\ FieldEmpty("architecture") => ret.architecture = "any"
        /\ FieldEmpty("package") => ret.package = "unknown-package"
        /\ FieldEmpty("description") => ret.description = ""
        /\ FieldEmpty("maintainer") => ret.maintainer = ""

\* a control text whose Package and Maintainer fields are there with no value
C26_Witness ==
    /\ phase = "done" /\ FieldEmpty("package") /\ FieldEmpty("maintainer")
    /\ FieldMissing("version")
    /\ ret.package = "unknown-package" /\ ret.maintainer = "" /\ ret.version = "0"

(***************************************************************************)
(* The metadata produced: _parse_control_metadata on control texts and     *)
(* _parse_tarball_metadata on file names whose package and version parts   *)
(* run over every short string of legal and illegal characters.            *)
(***************************************************************************)
MaxNameLen == 3

\* an upper-case and a lower-case letter, a digit, the separators that are trimmed,
\* a legal sign and an illegal character
NameChars == {"A", "b", "1", "-", ".", "_", "@", "!"}

NameStrings == UNION {StringsOf(NameChars, n) : n \in 0..MaxNameLen}

MetadataSources ==
    [kind : {"control"},
     text : {<<"Package: " \o n, "Version: 1.0">> : n \in NameStrings}
            \cup {<<"Package: tool", "Version: " \o v>> : v \in VersionStrings}
            \cup {<<>>}]
    \cup [kind : {"tarball"}, name : TarballNames \cup {n \o ".tgz" : n \in NameStrings}]

InitMeta ==
    /\ phase = "call" /\ arg \in MetadataSources /\ ret = None
    /\ files = {} /\ nread = 0 /\ OrchIdle

MetadataFromControl ==
    /\ phase = "call" /\ arg.kind = "control"
    /\ ret' = _parse_control_metadata(arg.text, ControlSource)
    /\ phase' = "done"
    /\ UNCHANGED <<arg, files, nread, orch, gui>>

MetadataFromTarball ==
    /\ phase = "call" /\ arg.kind = "tarball"
    /\ ret' = _parse_tarball_metadata(arg.name)
    /\ phase' = "done"
    /\ UNCHANGED <<arg, files, nread, orch, gui>>

NextMeta == MetadataFromControl \/ MetadataFromTarball

SpecMeta == InitMeta /\ [][NextMeta]_vars

\* non-empty, lower-case letters, digits and @._+- only, no -, . or _ at either end
ValidPackageName(n) ==
    /\ n # ""
    /\ \A i \in 1..Len(n) :
          \/ CharIn(Char(n, i), LowerLetters) \/ IsDigit(Char(n, i))
          \/ Char(n, i) \in {"@", ".", "_", "+", "-"}
    /\ Char(n, 1) \notin {"-", ".", "_"}
    /\ Char(n, Len(n)) \notin {"-", ".", "_"}

\* non-empty, letters, digits and .+_ only, no dot at either end, no two dots in a row
ValidPkgver(v) ==
    /\ v # ""
    /\ \A i \in 1..Len(v) :
          IsAlpha(Char(v, i)) \/ IsDigit(Char(v, i)) \/ Char(v, i) \in {".", "+", "_"}
    /\ Char(v, 1) # "." /\ Char(v, Len(v)) # "."
    /\ \A i \in 1..(Len(v) - 1) : ~(Char(v, i) = "." /\ Char(v, i + 1) = ".")

\* C27: every PackageMetadata produced, from a control block or from a tarball file
\* name, has a package name that is non-empty, lower-case, made of letters, digits
\* and @._+- only and neither starts nor ends with -, . or _, and a version that is
\* non-empty, made of letters, digits and .+_ only, with no leading, trailing or
\* repeated dot.
C27_MetadataWellFormed ==
    phase = "done" => ValidPackageName(ret.package) /\ ValidPkgver(ret.version)

\* a control block whose package name needs every step of the sanitizer
C27_Witness ==
    /\ phase = "done" /\ arg.kind = "control"
    /\ arg.text = <<"Package: .A!", "Version: 1.0">>
    /\ ret.package = "a" /\ ret.version = "1.0"

(***************************************************************************)
(* Input validation: validate_input_file on a path, given what the         *)
(* filesystem says about it.                                               *)
(***************************************************************************)
CandidateNames ==
    {"a.deb", "A.DEB", "a.Deb", ".deb", "a.deb.txt", "a.tar.gz.deb", "deb",
     "a.tar.gz", "A.TAR.GZ", "a.tgz", "a.TgZ", ".tgz", "a.tar", "a.txt"}

\* is_file: the path exists and is a regular file; magic_ok: its first 8 bytes are
\* the ar magic; is_tar: tarfile.is_tarfile says yes
CandidateFiles ==
    [name : CandidateNames, is_file : BOOLEAN, magic_ok : BOOLEAN, is_tar : BOOLEAN]

InitValidate ==
    /\ phase = "call" /\ arg \in CandidateFiles /\ ret = None
    /\ files = {} /\ nread = 0 /\ OrchIdle

ValidateInputFile ==
    /\ phase = "call"
    /\ ret' = validate_input_file(arg)
    /\ phase' = "done"
    /\ UNCHANGED <<arg, files, nread, orch, gui>>

NextValidate == ValidateInputFile

SpecValidate == InitValidate /\ [][NextValidate]_vars

\* C17 as stated: a path is accepted as deb only when it is a regular file whose
\* name ends in ".deb" as written (".DEB" is no deb candidate) and whose first bytes
\* are the ar magic; as tarball only when its lower-cased name ends in ".tar.gz" or
\* ".tgz" and it is a tar container; every other path fails with a format error.
StatedDeb(file) == file.is_file /\ EndsWith(file.name, ".deb") /\ file.magic_ok

StatedTarball(file) ==
    /\ file.is_file /\ file.is_tar
    /\ EndsWith(Lower(file.name), ".tar.gz") \/ EndsWith(Lower(file.name), ".tgz")

C17_AsStated ==
    phase = "done" =>
        /\ ret = "deb" => StatedDeb(arg)
        /\ ret = "tarball" => StatedTarball(arg)
        /\ (~StatedDeb(arg) /\ ~StatedTarball(arg)) => ret = "ConversionError"

\* the name has a last suffix that reads ".deb" in any mix of cases: it ends so and
\* is longer than the suffix
DebCandidate(name) == EndsWith(Lower(name), ".deb") /\ Len(name) > Len(".deb")

\* C17, corrected: the suffix test for deb is case-insensitive too.  A path is
\* accepted as deb exactly when it is a regular file whose last suffix, lower-cased,
\* is ".deb" (so A.DEB is a deb candidate, a file named just ".deb" is not) and whose
\* first 8 bytes are the ar magic; as tarball exactly when it is a regular file that
\* is no deb candidate, whose lower-cased name ends in ".tar.gz" or ".tgz", and that
\* is a tar container; every other path fails with ConversionError.
C17_SuffixCaseInsensitive ==
    phase = "done" =>
        /\ ret = "deb" <=> (arg.is_file /\ DebCandidate(arg.name) /\ arg.magic_ok)
        /\ ret = "tarball" <=>
              /\ arg.is_file /\ ~DebCandidate(arg.name) /\ arg.is_tar
              /\ EndsWith(Lower(arg.name), ".tar.gz") \/ EndsWith(Lower(arg.name), ".tgz")
        /\ ret \in {"deb", "tarball", "ConversionError"}

\* an ar archive with an upper-case suffix is accepted as deb
C17_Witness ==
    /\ phase = "done" /\ arg.name = "A.DEB" /\ arg.is_file /\ arg.magic_ok
    /\ ret = "deb"

(***************************************************************************)
(* converter.py: how _convert_with_debtap picks the package file debtap    *)
(* left.  The candidate directories are seen as a map from the package     *)
(* files present to their modification times.                              *)
(***************************************************************************)
\* started_at - 2
ClockSkewTolerance == 2

\* _collect_pkg_artifacts: the files present, newest first; files of equal age come
\* in the order of a set iteration, which is any order
_collect_pkg_artifacts(mtime) ==
    {s \in [1..Cardinality(DOMAIN mtime) -> DOMAIN mtime] :
        /\ \A i, j \in DOMAIN s : i # j => s[i] # s[j]
        /\ \A i, j \in DOMAIN s : i < j => mtime[s[i]] >= mtime[s[j]]}

\* _convert_with_debtap without the recent_after step
ConvertWithDebtapNoFallback(before, after, mtime, started_at, exit_ok) ==
    LET IsNew(path) == path \notin before /\ mtime[path] >= started_at - ClockSkewTolerance
        new_artifacts == SelectSeq(after, IsNew)
    IN  IF ~exit_ok THEN "ConversionError"
        ELSE IF new_artifacts # <<>> THEN new_artifacts[1]
        ELSE "ConversionError"

\* _convert_with_debtap after the before set and started_at are taken: exit_ok tells
\* whether debtap exited 0, after is the collection made once it has run
_convert_with_debtap(before, after, mtime, started_at, exit_ok) ==
    LET IsNew(path) == path \notin before /\ mtime[path] >= started_at - ClockSkewTolerance
        IsRecent(path) == mtime[path] >= started_at - ClockSkewTolerance
        new_artifacts == SelectSeq(after, IsNew)
        recent_after == SelectSeq(after, IsRecent)
    IN  IF ~exit_ok THEN "ConversionError"
        ELSE IF new_artifacts # <<>> THEN new_artifacts[1]
        ELSE IF recent_after # <<>> THEN recent_after[1]
        ELSE "ConversionError"

ArtifactPaths == {"debtap-output/tool.pkg.tar.zst", "ws/tool.pkg.tar.zst", "dl/tool.pkg.tar.xz"}

StartTimes == {5, 6}

Mtimes == {3, 4, 7}

\* the package files present once debtap has run, with their modification times
ArtifactMaps == UNION {[present -> Mtimes] : present \in SUBSET ArtifactPaths}

InitLocate ==
    /\ phase = "call"
    /\ arg \in [before : SUBSET ArtifactPaths, mtime : ArtifactMaps,
                started_at : StartTimes, exit_ok : BOOLEAN]
    /\ ret = None
    /\ files = {} /\ nread = 0 /\ OrchIdle

LocateDebtapArtifact ==
    /\ phase = "call"
    /\ \E after \in _collect_pkg_artifacts(arg.mtime) :
          ret' = _convert_with_debtap(arg.before, after, arg.mtime, arg.started_at, arg.exit_ok)
    /\ phase' = "done"
    /\ UNCHANGED <<arg, files, nread, orch, gui>>

NextLocate == LocateDebtapArtifact

SpecLocate == InitLocate /\ [][NextLocate]_vars

\* the package files modified no earlier than 2 seconds before debtap was started
RecentPaths == {p \in DOMAIN arg.mtime : arg.mtime[p] >= arg.started_at - ClockSkewTolerance}

\* those of them that were not there before debtap was started
NewPaths == RecentPaths \ arg.before

\* C19 as stated: the artifact the debtap step returns was absent from the set
\* collected before the invocation and was modified no earlier than 2 seconds before
\* invocation start; when there is no such artifact the step raises ConversionError.
C19_AsStated ==
    phase = "done" =>
        /\ ret # "ConversionError" => ret \in NewPaths
        /\ NewPaths = {} => ret = "ConversionError"

\* C19, corrected: the artifact the debtap step returns was modified no earlier
\* than 2 seconds before invocation start, and is a newest one of those absent from
\* the set collected before the invocation when there is one; when there is none, a
\* newest recently modified artifact is returned even though it was in that set.
\* The step raises ConversionError exactly when debtap exits non-zero or no
\* artifact is recent enough.
C19_NewElseRecent ==
    phase = "done" =>
        /\ ret = "ConversionError" <=> (~arg.exit_ok \/ RecentPaths = {})
        /\ ret # "ConversionError" =>
              /\ ret \in RecentPaths
              /\ NewPaths # {} =>
                    /\ ret \in NewPaths
                    /\ \A p \in NewPaths : arg.mtime[p] <= arg.mtime[ret]
              /\ NewPaths = {} => \A p \in RecentPaths : arg.mtime[p] <= arg.mtime[ret]

\* a file that was there before debtap ran and was touched since is returned
C19_Witness ==
    /\ phase = "done" /\ arg.exit_ok
    /\ ret = "ws/tool.pkg.tar.zst" /\ ret \in arg.before
    /\ arg.mtime[ret] = 7 /\ arg.started_at = 6

\* the directory create_temp_dir makes, and the directories the builders use in it
WorkspaceDir == <<"tmp", "deb2arch-ws">>
PkgrootDir == WorkspaceDir \o <<"manual-build", "pkgroot">>
ExtractDir == WorkspaceDir \o <<"tarball-extract">>

(***************************************************************************)
(* converter.py: _open_tar_archive as a context manager, from the call to  *)
(* the end of the with block, and the scratch file of its zstd step.       *)
(***************************************************************************)
\* decompressed = temp_dir / f"{archive_path.name}.decompressed.tar"
ScratchFile(name) ==
    [path |-> WorkspaceDir \o <<name \o ".decompressed.tar">>, kind |-> "file",
     mode |-> NewFileMode, src |-> "zstd"]

\* what the zstd step of an open that ended as o leaves at the scratch path before
\* any unlink: the decompressed file when zstd exited 0, and whatever zstd had
\* written (partial tells whether it left something) when it did not
ScratchWritten(name, o, partial) ==
    IF o.cmds = <<>> THEN {}
    ELSE IF o.res = "CommandExecutionError" /\ ~partial THEN {}
    ELSE {ScratchFile(name)}

\* the archives, the environments and the outcomes of the caller's with block
OpenCalls ==
    [name : {"control.tar.zst", "data.tar.gz", "tool-2.0-1-any.pkg.tar.zst"},
     native : BOOLEAN, has_zstd : BOOLEAN, zstd_ok : BOOLEAN, plain_tar : BOOLEAN,
     partial : BOOLEAN, body : {"ok", "ReadError", "ConversionError"}]

InitOpen ==
    /\ phase = "call" /\ arg \in OpenCalls /\ ret = None
    /\ files = {} /\ nread = 0 /\ OrchIdle

\* the with statement enters: the code up to the first yield reached, or the error
EnterArchive ==
    /\ phase = "call"
    /\ LET o == _open_tar_archive(arg.name, arg.native, arg.has_zstd, arg.zstd_ok,
                                  arg.plain_tar)
       IN /\ files' = ScratchWritten(arg.name, o, arg.partial)
          /\ IF o.res = "open"
             THEN /\ phase' = (IF o.cmds = <<>> THEN "using_native" ELSE "using_scratch")
                  /\ UNCHANGED ret
             ELSE /\ phase' = "done"
                  /\ ret' = o.res
    /\ UNCHANGED <<arg, nread, orch, gui>>

\* the with block ends on the archive opened by tarfile.open(mode="r:*").  A
\* tarfile.ReadError of the block is thrown into the generator, where
\* `except tarfile.ReadError: pass` takes it and the zstd step runs; a second yield
\* makes the context manager raise RuntimeError and close the generator, which runs
\* the finally with the unlink
ExitNative ==
    /\ phase = "using_native"
    /\ phase' = "done"
    /\ IF arg.body # "ReadError"
       THEN ret' = arg.body /\ UNCHANGED files
       ELSE LET o == _open_tar_archive(arg.name, FALSE, arg.has_zstd, arg.zstd_ok,
                                       arg.plain_tar)
            IN IF o.res = "open"
               THEN ret' = "RuntimeError" /\ files' = files \ {ScratchFile(arg.name)}
               ELSE /\ ret' = o.res
                    /\ files' = files \cup ScratchWritten(arg.name, o, arg.partial)
    /\ UNCHANGED <<arg, nread, orch, gui>>

\* the with block ends on the decompressed archive: `finally: tar.close();
\* decompressed.unlink(missing_ok=True)`, then the block's error if it raised one
ExitScratch ==
    /\ phase = "using_scratch"
    /\ phase' = "done"
    /\ files' = files \ {ScratchFile(arg.name)}
    /\ ret' = arg.body
    /\ UNCHANGED <<arg, nread, orch, gui>>

NextOpen == EnterArchive \/ ExitNative \/ ExitScratch

SpecOpen == InitOpen /\ [][NextOpen]_vars

\* C20 as stated: once the open operation is over the scratch file of the zstd step
\* does not exist, whether the archive was read, zstd exited non-zero, the
\* decompressed file was no tar stream, or the caller's block raised.
C20_AsStated ==
    phase = "done" => ScratchFile(arg.name) \notin files

\* the case that needs no choice of the environment beyond the archive: zstd exits 0
\* and what it wrote is not a tar stream
C20_NotATarLeavesNoScratch ==
    (phase = "done" /\ ~arg.native /\ arg.has_zstd /\ arg.zstd_ok /\ ~arg.plain_tar) =>
        ScratchFile(arg.name) \notin files

(***************************************************************************)
(* utils.py: strip_ansi_escapes and run_command, the loop that reads the   *)
(* output of the process one line a step.                                  *)
(***************************************************************************)
\* stands for chr(27), the escape character, which no line holds otherwise
Esc == "\f"

\* c is in the character range lo-hi of a regular expression
InRange(c, lo, hi) == c \in DOMAIN OrdTable /\ Ord(lo) <= Ord(c) /\ Ord(c) <= Ord(hi)

RECURSIVE SkipRange(_, _, _, _)
\* the first position from i on whose character is not in lo-hi
SkipRange(s, i, lo, hi) ==
    IF i <= Len(s) /\ InRange(Char(s, i), lo, hi) THEN SkipRange(s, i + 1, lo, hi) ELSE i

\* the length of the match of ANSI_ESCAPE_RE at the start of s, 0 when there is none:
\* \x1B(?:[@-Z\\-_]|\[[0-?]*[ -/]*[@-~]|[\(\)][0-9A-Za-z])
AnsiMatchLen(s) ==
    IF Len(s) < 2 \/ Char(s, 1) # Esc THEN 0
    ELSE IF InRange(Char(s, 2), "@", "Z") \/ InRange(Char(s, 2), "\\", "_") THEN 2
    ELSE IF Char(s, 2) = "["
    THEN LET final == SkipRange(s, SkipRange(s, 3, "0", "?"), " ", "/")
         IN IF final <= Len(s) /\ InRange(Char(s, final), "@", "~") THEN final ELSE 0
    ELSE IF Char(s, 2) \in {"(", ")"} /\ Len(s) >= 3
            /\ (IsDigit(Char(s, 3)) \/ IsAlpha(Char(s, 3)))
    THEN 3
    ELSE 0

RECURSIVE strip_ansi_escapes(_)
\* ANSI_ESCAPE_RE.sub("", text)
strip_ansi_escapes(text) ==
    IF Len(text) = 0 THEN ""
    ELSE IF AnsiMatchLen(text) > 0
    THEN strip_ansi_escapes(SubSeq(text, AnsiMatchLen(text) + 1, Len(text)))
    ELSE Char(text, 1) \o strip_ansi_escapes(SubSeq(text, 2, Len(text)))

\* stripped = strip_ansi_escapes(line.rstrip("\n")).strip(), for a line given without
\* its newline
StrippedLine(line) == StripWs(strip_ansi_escapes(line))

\* the loop body with the callback called on blank lines too
CallbackAlsoOnBlank(delivered, line, has_callback) ==
    IF has_callback THEN Append(delivered, StrippedLine(line)) ELSE delivered

\* `if stripped: ... if log_callback: log_callback(stripped)`: the lines the callback
\* has been given once the loop body has run on the line
CallbackAfter(delivered, line, has_callback) ==
    IF StrippedLine(line) # "" /\ has_callback
    THEN Append(delivered, StrippedLine(line))
    ELSE delivered

MaxLines == 2

ProcessLines ==
    {"ok", "  ok ", "", "  ", Esc \o "[0m", Esc \o "[1;32mok" \o Esc \o "[0m "}

InitRun ==
    /\ phase = "reading"
    /\ arg \in [lines : SeqsUpTo(ProcessLines, MaxLines), returncode : {0, 1},
                check : BOOLEAN, has_callback : BOOLEAN]
    /\ ret = [output_lines |-> <<>>, delivered |-> <<>>, raised |-> None]
    /\ files = {} /\ nread = 0 /\ OrchIdle

\* one turn of `for line in iter(process.stdout.readline, "")`
ReadLine ==
    /\ phase = "reading" /\ nread < Len(arg.lines)
    /\ nread' = nread + 1
    /\ ret' = [ret EXCEPT
                 !.output_lines = Append(@, StrippedLine(arg.lines[nread + 1])),
                 !.delivered = CallbackAfter(@, arg.lines[nread + 1], arg.has_callback)]
    /\ UNCHANGED <<phase, arg, files, orch, gui>>

\* readline returns "" at the end of the output; process.wait()
ProcessWait ==
    /\ phase = "reading" /\ nread = Len(arg.lines)
    /\ phase' = "waited"
    /\ UNCHANGED <<arg, ret, files, nread, orch, gui>>

\* `if check and process.returncode != 0: raise CommandExecutionError`, else return
CheckReturncode ==
    /\ phase = "waited"
    /\ phase' = "done"
    /\ ret' = [ret EXCEPT !.raised = IF arg.check /\ arg.returncode # 0
                                     THEN "CommandExecutionError" ELSE None]
    /\ UNCHANGED <<arg, files, nread, orch, gui>>

NextRun == ReadLine \/ ProcessWait \/ CheckReturncode

SpecRun == InitRun /\ [][NextRun]_vars

\* C23 as stated: the lines delivered to the callback are the lines the process
\* produced, in the same order; each is delivered before the next one is read, and
\* all are delivered before the exit status is checked.
C23_AsStated ==
    /\ arg.has_callback => ret.delivered = SubSeq(arg.lines, 1, nread)
    /\ phase \in {"waited", "done"} => nread = Len(arg.lines)

\* C23, corrected: the callback is given each produced line stripped of its ANSI
\* escape sequences and of the whitespace around it, and is not called for a line
\* that is empty after that; the lines it is given keep the order in which they were
\* produced.  The callback has the lines read so far before the next one is read,
\* and the whole output has been read before the exit status is checked and
\* CommandExecutionError raised.
C23_StrippedNonBlankInOrder ==
    /\ ret.output_lines = MapSeq(StrippedLine, SubSeq(arg.lines, 1, nread))
    /\ ret.delivered = IF arg.has_callback THEN NonEmpty(ret.output_lines) ELSE <<>>
    /\ phase \in {"waited", "done"} => nread = Len(arg.lines)
    /\ ret.raised # None => phase = "done"

\* a coloured line, then a blank one: the callback got the first without its colour
\* codes and the command failed after both were read
C23_Witness ==
    /\ phase = "done" /\ arg.has_callback /\ ret.raised = "CommandExecutionError"
    /\ arg.lines = <<Esc \o "[1;32mok" \o Esc \o "[0m ", "  ">>
    /\ ret.delivered = <<"ok">>

(***************************************************************************)
(* converter.py: convert and inspect_metadata, one action per stage.  The  *)
(* input archive is part of the call; what the external tools and the      *)
(* filesystem answer is chosen at the step that asks.                      *)
(***************************************************************************)
ControlFiveDeps ==
    <<"Package: tool", "Version: 2.0", "Architecture: all",
      "Depends: libc6, libssl3, zlib1g, libgtk-3-0, python3">>

\* the control member of control.tar: there or not, and its lines
Controls ==
    {[present |-> TRUE, lines |-> ControlScenarioA],
     [present |-> TRUE, lines |-> ControlFiveDeps],
     [present |-> FALSE, lines |-> <<>>]}

\* what `ar t` prints for the archive
Listings ==
    {<<"debian-binary", "control.tar.gz", "data.tar.zst">>,
     <<"debian-binary", "control.tar.zst", "data.tar.xz">>,
     <<"debian-binary", "control.tar.gz">>,
     <<"debian-binary", "data.tar.xz">>}

ModeRWX == 7 * 64 + 5 * 8 + 5
ModeRX == 5 * 64 + 5 * 8 + 5

\* payloads: a plain tree; a read-only directory; a read-only directory followed by
\* a traversal member; a symbolic link
DataArchives ==
    {<<[name |-> "usr", type |-> "dir", mode |-> ModeRWX],
       [name |-> "usr/tool", type |-> "file", mode |-> ModeRWX]>>,
     <<[name |-> "a/b", type |-> "file", mode |-> ModeRWX],
       [name |-> "a", type |-> "dir", mode |-> ModeRX]>>,
     <<[name |-> "a/b", type |-> "file", mode |-> ModeRWX],
       [name |-> "a", type |-> "dir", mode |-> ModeRX],
       [name |-> "../evil", type |-> "file", mode |-> ModeRWX]>>,
     <<[name |-> "tool", type |-> "sym", mode |-> ModeRWX]>>}

DebFiles ==
    [name : {"libfoo-bar_1.2.3-amd64.deb"}, is_file : {TRUE}, magic_ok : {TRUE},
     is_tar : {FALSE}, listing : Listings, control : Controls, data : DataArchives]

TarballFiles ==
    [name : {"myapp-2.0.1-x86_64.tar.gz"}, is_file : {TRUE}, magic_ok : {FALSE},
     is_tar : BOOLEAN, listing : {<<>>}, control : {[present |-> FALSE, lines |-> <<>>]},
     data : DataArchives]

\* a missing path, a file that is no ar archive, an upper-case suffix, another suffix
OtherFiles ==
    [name : {"libfoo-bar_1.2.3-amd64.deb", "PKG.DEB", "notes.txt"},
     is_file : BOOLEAN, magic_ok : BOOLEAN, is_tar : {FALSE},
     listing : {<<"debian-binary", "control.tar.gz", "data.tar.zst">>},
     control : {[present |-> TRUE, lines |-> ControlScenarioA]},
     data : {<<[name |-> "usr", type |-> "dir", mode |-> ModeRWX],
               [name |-> "usr/tool", type |-> "file", mode |-> ModeRWX]>>}]

InputFiles == DebFiles \cup TarballFiles \cup OtherFiles

Calls ==
    [api : {"convert"}, prefer_debtap : BOOLEAN, file : InputFiles]
    \cup [api : {"inspect"}, prefer_debtap : {FALSE}, file : InputFiles]

\* the .PKGINFO of the package files debtap may leave: one odd name, four garbled
\* names, sound names, and no dependency line
ArtifactPkginfos ==
    {<<"depend = pytho.3">>,
     <<"depend = openss.3.0.1", "depend = libfoo.2.", "depend = libz.1.2", "depend = gtk.3.0">>,
     <<"depend = glibc", "depend = gtk3>=3.24">>,
     <<"pkgname = tool">>}

\* fresh: the file was not there before debtap ran
Artifacts ==
    [name : {"tool-2.0-1-any.pkg.tar.zst", "tool-2.0-1-any.pkg.tar.xz"}, fresh : {TRUE},
     has_pkginfo : {TRUE}, pkginfo : ArtifactPkginfos]
    \cup {[name |-> "old-1.0-1-any.pkg.tar.zst", fresh |-> FALSE, has_pkginfo |-> FALSE,
           pkginfo |-> <<>>]}

Init ==
    /\ phase = "call" /\ arg \in Calls /\ ret = None
    /\ files = {} /\ nread = 0
    /\ pc = "start" /\ input_format = None /\ temp_dir = "none" /\ metadata = None
    /\ artifact = None /\ package_path = None /\ used_debtap = FALSE /\ verdict = None
    /\ err = None /\ cleanups = 0 /\ trace = <<>> /\ stages = <<>> /\ releases = 0
    /\ GuiIdle

\* an exception leaves the stage: inside the try block of the call it is on its way
\* to the `except Exception` / `finally` clause
Raise(e) ==
    /\ err' = e
    /\ pc' = "failing"

\* validate_input_file called once the workspace has been created
ValidateInputInWorkspace ==
    /\ pc = "start"
    /\ stages' = Append(stages, "validate")
    /\ temp_dir' = "exists"
    /\ IF validate_input_file(arg.file) = "ConversionError"
       THEN /\ err' = "ConversionError"
            /\ pc' = "raised"
            /\ UNCHANGED input_format
       ELSE /\ input_format' = validate_input_file(arg.file)
            /\ pc' = "validated"
            /\ UNCHANGED err
    /\ UNCHANGED <<gui, phase, arg, releases, ret, files, nread, metadata, artifact, package_path,
                   used_debtap, verdict, cleanups, trace>>

\* input_format = self.validate_input_file(input_path), before the try block
ValidateInput ==
    /\ pc = "start"
    /\ stages' = Append(stages, "validate")
    /\ IF validate_input_file(arg.file) = "ConversionError"
       THEN /\ err' = "ConversionError"
            /\ pc' = "raised"
            /\ UNCHANGED input_format
       ELSE /\ input_format' = validate_input_file(arg.file)
            /\ pc' = "validated"
            /\ UNCHANGED err
    /\ UNCHANGED <<gui, phase, arg, releases, ret, files, nread, temp_dir, metadata, artifact, package_path,
                   used_debtap, verdict, cleanups, trace>>

\* inspect_metadata on a tarball: return self._parse_tarball_metadata(input_path)
InspectTarball ==
    /\ pc = "validated" /\ arg.api = "inspect" /\ input_format = "tarball"
    /\ metadata' = _parse_tarball_metadata(arg.file.name)
    /\ ret' = _parse_tarball_metadata(arg.file.name)
    /\ pc' = "returned"
    /\ UNCHANGED <<gui, phase, arg, releases, files, nread, input_format, temp_dir, artifact, package_path,
                   used_debtap, verdict, err, cleanups, trace, stages>>

\* create_temp_dir followed by the .deb stages whatever the format
CreateTempDirThenAr ==
    /\ pc = "validated" /\ ~(arg.api = "inspect" /\ input_format = "tarball")
    /\ temp_dir' = "exists"
    /\ pc' = "ar_list"
    /\ UNCHANGED <<gui, phase, arg, releases, ret, files, nread, input_format, metadata, artifact,
                   package_path, used_debtap, verdict, err, cleanups, trace, stages>>

\* temp_dir = create_temp_dir()
CreateTempDir ==
    /\ pc = "validated" /\ ~(arg.api = "inspect" /\ input_format = "tarball")
    /\ temp_dir' = "exists"
    /\ pc' = IF input_format = "tarball" THEN "tarball" ELSE "ar_list"
    /\ UNCHANGED <<gui, phase, arg, releases, ret, files, nread, input_format, metadata, artifact,
                   package_path, used_debtap, verdict, err, cleanups, trace, stages>>

\* _extract_deb_members, first half: `ar t` and the test of the listing.  ar may be
\* missing (Popen raises FileNotFoundError) or exit non-zero
ArList ==
    /\ pc = "ar_list"
    /\ stages' = Append(stages, "extract")
    /\ \E out \in {"ok", "fail", "missing"} :
          /\ trace' = IF out = "missing" THEN trace ELSE Append(trace, "ar t")
          /\ IF out = "missing" THEN Raise("FileNotFoundError")
             ELSE IF out = "fail" THEN Raise("CommandExecutionError")
             ELSE IF FirstMember(arg.file.listing, "control.tar") = ""
                     \/ FirstMember(arg.file.listing, "data.tar") = ""
             THEN Raise("ConversionError")
             ELSE pc' = "ar_extract" /\ UNCHANGED err
    /\ UNCHANGED <<gui, phase, arg, releases, ret, files, nread, input_format, temp_dir, metadata, artifact,
                   package_path, used_debtap, verdict, cleanups>>

\* _extract_deb_members, second half: `ar x` and the test that both members are there
ArExtract ==
    /\ pc = "ar_extract"
    /\ trace' = Append(trace, "ar x")
    /\ \E exit_ok \in BOOLEAN, extracted \in BOOLEAN :
          IF ~exit_ok THEN Raise("CommandExecutionError")
          ELSE IF ~extracted THEN Raise("ConversionError")
          ELSE pc' = "read_control" /\ UNCHANGED err
    /\ UNCHANGED <<gui, phase, arg, releases, ret, files, nread, input_format, temp_dir, metadata, artifact,
                   package_path, used_debtap, verdict, cleanups, stages>>

\* _read_control_file and _parse_control_metadata
ReadControl ==
    /\ pc = "read_control"
    /\ stages' = Append(stages, "parse")
    /\ \E o \in OpenOutcomes(FirstMember(arg.file.listing, "control.tar")) :
          /\ trace' = trace \o o.cmds
          /\ IF o.res # "open" THEN Raise(o.res) /\ UNCHANGED metadata
             ELSE IF ~arg.file.control.present
             THEN Raise("ConversionError") /\ UNCHANGED metadata
             ELSE /\ metadata' = _parse_control_metadata(arg.file.control.lines, arg.file.name)
                  /\ pc' = IF arg.api = "inspect" THEN "finally" ELSE "decide"
                  /\ UNCHANGED err
    /\ UNCHANGED <<gui, phase, arg, releases, ret, files, nread, input_format, temp_dir, artifact,
                   package_path, used_debtap, verdict, cleanups>>

\* if prefer_debtap and command_exists("debtap")
DebtapWanted ==
    /\ pc = "decide"
    /\ \E on_path \in BOOLEAN :
          pc' = IF arg.prefer_debtap /\ on_path THEN "debtap" ELSE "manual"
    /\ UNCHANGED <<gui, phase, arg, releases, ret, files, nread, input_format, temp_dir, metadata, artifact,
                   package_path, used_debtap, verdict, err, cleanups, trace, stages>>

\* _convert_with_debtap run a second time when the first run gave no package file
ConvertWithDebtapRetrying ==
    /\ pc = "debtap"
    /\ stages' = Append(stages, "debtap")
    /\ trace' = trace \o <<"debtap --help", "debtap">>
    /\ \E exit_ok \in BOOLEAN, found \in BOOLEAN :
          IF exit_ok /\ found
          THEN /\ artifact' \in Artifacts
               /\ package_path' = "debtap"
               /\ pc' = "validate"
          ELSE /\ pc' = (IF stages = <<"validate", "extract", "parse">> THEN "debtap" ELSE "manual")
               /\ UNCHANGED <<artifact, package_path>>
    /\ UNCHANGED <<gui, phase, arg, releases, ret, files, nread, input_format, temp_dir, metadata,
                   used_debtap, verdict, err, cleanups>>

\* package_path = self._convert_with_debtap(...): its ConversionError (debtap exits
\* non-zero, no package file found) is caught by convert, package_path stays None
ConvertWithDebtap ==
    /\ pc = "debtap"
    /\ stages' = Append(stages, "debtap")
    /\ trace' = trace \o <<"debtap --help", "debtap">>
    /\ \E exit_ok \in BOOLEAN, found \in BOOLEAN :
          IF exit_ok /\ found
          THEN /\ artifact' \in Artifacts
               /\ package_path' = "debtap"
               /\ pc' = "validate"
          ELSE /\ pc' = "manual"
               /\ UNCHANGED <<artifact, package_path>>
    /\ UNCHANGED <<gui, phase, arg, releases, ret, files, nread, input_format, temp_dir, metadata,
                   used_debtap, verdict, err, cleanups>>

\* if self._debtap_output_is_usable(package_path, ...): the artifact is opened with
\* _open_tar_archive.  A ConversionError of the open is caught by convert, which
\* goes on with package_path still set; any other error leaves the try block
DebtapValidate ==
    /\ pc = "validate"
    /\ stages' = Append(stages, "trust")
    /\ \E o \in OpenOutcomes(artifact.name) :
          /\ trace' = trace \o o.cmds
          /\ IF o.res = "ConversionError"
             THEN /\ pc' = "result"
                  /\ UNCHANGED <<package_path, used_debtap, verdict, err>>
             ELSE IF o.res # "open"
             THEN Raise(o.res) /\ UNCHANGED <<package_path, used_debtap, verdict>>
             ELSE IF _debtap_output_is_usable(
                         PkginfoDependencies(artifact.has_pkginfo, artifact.pkginfo),
                         metadata.mapped_dependencies)
             THEN /\ used_debtap' = TRUE
                  /\ verdict' = "trusted"
                  /\ pc' = "result"
                  /\ UNCHANGED <<package_path, err>>
             ELSE /\ package_path' = None
                  /\ used_debtap' = FALSE
                  /\ verdict' = "rejected"
                  /\ pc' = "manual"
                  /\ UNCHANGED err
    /\ UNCHANGED <<gui, phase, arg, releases, ret, files, nread, input_format, temp_dir, metadata, artifact,
                   cleanups>>

\* _convert_manually_deb up to the build: the two mkdir calls, the data archive
\* opened and extracted into pkgroot
ConvertManuallyDeb ==
    /\ pc = "manual"
    /\ stages' = Append(stages, "manual")
    /\ \E o \in OpenOutcomes(FirstMember(arg.file.listing, "data.tar")) :
          /\ trace' = trace \o o.cmds
          /\ IF o.res # "open"
             THEN /\ files' = DestinationMade(PkgrootDir)
                  /\ Raise(o.res)
             ELSE /\ files' = safe_extract_tar(arg.file.data, PkgrootDir).fs
                  /\ IF safe_extract_tar(arg.file.data, PkgrootDir).err # None
                     THEN Raise(safe_extract_tar(arg.file.data, PkgrootDir).err)
                     ELSE pc' = "build" /\ UNCHANGED err
    /\ UNCHANGED <<gui, phase, arg, releases, ret, nread, input_format, temp_dir, metadata, artifact,
                   package_path, used_debtap, verdict, cleanups>>

\* metadata = self._parse_tarball_metadata(input_path) and _convert_tarball up to
\* the build: a tarfile.TarError of the open becomes ConversionError
ConvertTarball ==
    /\ pc = "tarball"
    /\ stages' = Append(stages, "tarball")
    /\ metadata' = _parse_tarball_metadata(arg.file.name)
    /\ \E readable \in BOOLEAN :
          IF ~readable
          THEN /\ files' = DestinationMade(ExtractDir)
               /\ Raise("ConversionError")
          ELSE /\ files' = safe_extract_tar(arg.file.data, ExtractDir).fs
               /\ IF safe_extract_tar(arg.file.data, ExtractDir).err # None
                  THEN Raise(safe_extract_tar(arg.file.data, ExtractDir).err)
                  ELSE pc' = "build" /\ UNCHANGED err
    /\ UNCHANGED <<gui, phase, arg, releases, ret, nread, input_format, temp_dir, artifact, package_path,
                   used_debtap, verdict, cleanups, trace>>

\* _build_from_pkgroot: makepkg may be missing (FileNotFoundError), exit non-zero
\* (CommandExecutionError turned into ConversionError) or leave no package file
BuildFromPkgroot ==
    /\ pc = "build"
    /\ stages' = Append(stages, "build")
    /\ \E out \in {"ok", "fail", "missing"}, generated \in BOOLEAN :
          /\ trace' = IF out = "missing" THEN trace ELSE Append(trace, "makepkg")
          /\ IF out = "missing" THEN Raise("FileNotFoundError") /\ UNCHANGED package_path
             ELSE IF out = "fail" \/ ~generated
             THEN Raise("ConversionError") /\ UNCHANGED package_path
             ELSE /\ package_path' = IF input_format = "tarball" THEN "tarball" ELSE "manual"
                  /\ pc' = "result"
                  /\ UNCHANGED err
    /\ UNCHANGED <<gui, phase, arg, releases, ret, files, nread, input_format, temp_dir, metadata, artifact,
                   used_debtap, verdict, cleanups>>

\* return ConversionResult(metadata, package_path, temp_dir, used_debtap)
ReturnResult ==
    /\ pc = "result"
    /\ ret' = [metadata |-> metadata, package_path |-> package_path,
               temp_dir |-> WorkspaceDir, used_debtap |-> used_debtap]
    /\ pc' = "returned"
    /\ UNCHANGED <<gui, phase, arg, releases, files, nread, input_format, temp_dir, metadata, artifact,
                   package_path, used_debtap, verdict, err, cleanups, trace, stages>>

\* convert: `except Exception: cleanup_dir(temp_dir); raise`
ConvertExcept ==
    /\ pc = "failing" /\ arg.api = "convert"
    /\ \E privileged \in BOOLEAN : temp_dir' = cleanup_dir(temp_dir, files, privileged)
    /\ cleanups' = cleanups + 1
    /\ pc' = "raised"
    /\ UNCHANGED <<gui, phase, arg, releases, ret, files, nread, input_format, metadata, artifact,
                   package_path, used_debtap, verdict, err, trace, stages>>

\* inspect_metadata: `finally: cleanup_dir(temp_dir)`, then the return or the raise
InspectFinally ==
    /\ pc \in {"failing", "finally"} /\ arg.api = "inspect"
    /\ \E privileged \in BOOLEAN : temp_dir' = cleanup_dir(temp_dir, files, privileged)
    /\ cleanups' = cleanups + 1
    /\ IF pc = "finally"
       THEN ret' = metadata /\ pc' = "returned"
       ELSE pc' = "raised" /\ UNCHANGED ret
    /\ UNCHANGED <<gui, phase, arg, releases, files, nread, input_format, metadata, artifact,
                   package_path, used_debtap, verdict, err, trace, stages>>

MaxReleases == 2

\* the caller of convert calls cleanup_workspace(workspace) once the call is over:
\* on the workspace of the result, on one that convert released before raising, on
\* one that was never created, or once more on any of them
CleanupWorkspace ==
    /\ arg.api = "convert" /\ pc \in {"returned", "raised", "released"}
    /\ releases < MaxReleases
    /\ releases' = releases + 1
    /\ \E privileged \in BOOLEAN :
          /\ temp_dir' = cleanup_dir(temp_dir, files, privileged)
          /\ IF CleanupDirRaises(temp_dir, files, privileged)
             THEN pc' = "release_raised"
             ELSE pc' = "released"
    /\ UNCHANGED <<gui, phase, arg, ret, files, nread, input_format, metadata, artifact,
                   package_path, used_debtap, verdict, err, cleanups, trace, stages>>

Next ==
    \/ ValidateInput
    \/ InspectTarball
    \/ CreateTempDir
    \/ ArList
    \/ ArExtract
    \/ ReadControl
    \/ DebtapWanted
    \/ ConvertWithDebtap
    \/ DebtapValidate
    \/ ConvertManuallyDeb
    \/ ConvertTarball
    \/ BuildFromPkgroot
    \/ ReturnResult
    \/ ConvertExcept
    \/ InspectFinally
    \/ CleanupWorkspace

Spec == Init /\ [][Next]_vars

\* the call is over
Over == pc \in {"returned", "raised"}

Started(stage) == \E i \in 1..Len(stages) : stages[i] = stage

\* convert reached `if prefer_debtap and command_exists("debtap")`: one of the two
\* branches has been taken
Decided == Started("debtap") \/ Started("manual")

\* C1 as stated: every convert call that acquired a workspace ends either returned,
\* with the workspace of the result still there and never released by the call, or
\* raised, with the workspace removed before the error reaches the caller.
C1_AsStated ==
    (arg.api = "convert" /\ Over /\ temp_dir # "none") =>
        \/ /\ pc = "returned" /\ temp_dir = "exists" /\ cleanups = 0
           /\ ret.temp_dir = WorkspaceDir
        \/ pc = "raised" /\ temp_dir = "removed"

\* C2 as stated: in convert on a .deb, whenever the debtap path was skipped, failed
\* or had its artifact rejected (that is, unless the validator accepted the artifact),
\* the manual builder is started, and an error that reaches the caller was raised by
\* the manual builder, not by the debtap path.
C2_AsStated ==
    (arg.api = "convert" /\ input_format = "deb" /\ Over /\ Decided /\ verdict # "trusted") =>
        /\ Started("manual")
        /\ pc = "raised" => stages[Len(stages)] \in {"manual", "build"}

\* the listing of the archive has a control.tar* member and no data.tar* member
NoDataListing ==
    /\ FirstMember(arg.file.listing, "control.tar") # ""
    /\ FirstMember(arg.file.listing, "data.tar") = ""

\* C3 as stated: for a .deb whose listing has a control.tar* member but no data.tar*
\* member (ar working, control file present), inspect_metadata returns the parsed
\* metadata, and convert raises ConversionError with its workspace released.
C3_AsStated ==
    (/\ Over /\ input_format = "deb" /\ NoDataListing /\ arg.file.control.present
     /\ err \notin {"FileNotFoundError", "CommandExecutionError"}) =>
        /\ arg.api = "inspect" =>
              /\ pc = "returned"
              /\ ret = _parse_control_metadata(arg.file.control.lines, arg.file.name)
        /\ arg.api = "convert" =>
              pc = "raised" /\ err = "ConversionError" /\ temp_dir = "removed"

\* scenario D: the artifact debtap left declares the one dependency pytho.3, the
\* metadata of the .deb has five mapped dependencies, none of them a declared base
\* name, and the validator has given its answer
ScenarioD ==
    /\ arg.api = "convert" /\ Started("trust") /\ verdict # None
    /\ Declared(artifact.pkginfo) = <<"pytho.3">>
    /\ Cardinality(ToSet(metadata.mapped_dependencies)) = 5
    /\ Overlap(Declared(artifact.pkginfo), ToSet(metadata.mapped_dependencies)) = {}

\* C4 as stated: in scenario D the validator rejects the artifact and convert falls
\* back to the manual builder, the result not flagged as debtap's.
C4_AsStated ==
    ScenarioD =>
        /\ verdict = "rejected"
        /\ pc = "returned" => ~ret.used_debtap /\ ret.package_path = "manual"

\* C4, corrected: in scenario D the validator accepts the artifact (pytho.3 is not
\* suspicious: no digit before its dot, no lib prefix), the manual builder is never
\* started, and convert returns debtap's artifact with used_debtap true.
C4_ScenarioDAccepted ==
    ScenarioD =>
        /\ verdict = "trusted"
        /\ pc \in {"result", "returned", "released"}
        /\ ~Started("manual") /\ ~Started("build")
        /\ package_path = "debtap" /\ used_debtap
        /\ pc = "returned" => ret.used_debtap /\ ret.package_path = "debtap"

\* convert has returned in scenario D
C4_Witness ==
    /\ ScenarioD /\ pc = "returned"
    /\ ret.used_debtap /\ ret.package_path = "debtap"

\* C11: inspect_metadata leaves no scratch directory behind.  When the call is over,
\* with the metadata returned or with an error raised while the members were
\* extracted or the control file was read and parsed, the directory it created has
\* been removed by one cleanup_dir call; for tarball input, and when validation
\* fails, it created none and released none.
C11_InspectLeavesNoScratch ==
    (arg.api = "inspect" /\ Over) =>
        /\ temp_dir # "exists"
        /\ input_format = "tarball" => temp_dir = "none" /\ cleanups = 0
        /\ input_format = "deb" => temp_dir = "removed" /\ cleanups = 1
        /\ input_format = None => temp_dir = "none" /\ cleanups = 0

\* inspect_metadata failed while reading the control file, its directory is gone
C11_Witness ==
    /\ arg.api = "inspect" /\ pc = "raised" /\ Started("parse")
    /\ temp_dir = "removed" /\ cleanups = 1

\* C12: cleanup_workspace is idempotent and never raises.  Every cleanup_workspace
\* call returns normally, and a call on a workspace that is not there, because it
\* was released before or never created, changes nothing on the filesystem: a
\* second release leaves what the first one left.
C12_ReleaseIdempotent ==
    [][(releases' = releases + 1) =>
          /\ pc' = "released" /\ err' = err /\ files' = files
          /\ temp_dir # "exists" => temp_dir' = temp_dir]_vars

\* the workspace of a convert result was released by the caller, then released again
C12_Witness ==
    /\ pc = "released" /\ releases = 2 /\ cleanups = 0
    /\ temp_dir = "removed" /\ package_path # None


\* C18 as stated: in every convert result, used_debtap is true exactly when the
\* returned package_path is the artifact debtap produced in this call and the trust
\* validator accepted it; when it is false the returned artifact was produced by the
\* manual or the tarball builder; an artifact the validator rejected is never
\* returned.
C18_AsStated ==
    (arg.api = "convert" /\ pc = "returned") =>
        /\ ret.used_debtap <=>
              /\ ret.package_path = "debtap" /\ verdict = "trusted"
              /\ artifact.fresh
        /\ ~ret.used_debtap => ret.package_path \in {"manual", "tarball"}
        /\ verdict = "rejected" => ret.package_path # "debtap"


\* the number of times the command was launched
Launches(command) == Cardinality({i \in 1..Len(trace) : trace[i] = command})

\* the stages of convert in the order of its code; "tarball" is the tarball builder
\* up to its build, "build" the makepkg run of either builder
StageOrder ==
    <<"validate", "extract", "parse", "debtap", "trust", "manual", "tarball", "build">>

StageRank(stage) == CHOOSE r \in 1..Len(StageOrder) : StageOrder[r] = stage

\* each stage started at most once, and in the order of StageOrder
StagesInOrder ==
    \A i, j \in 1..Len(stages) : i < j => StageRank(stages[i]) < StageRank(stages[j])

\* C21: within one call nothing is re-attempted.  The debtap conversion command and
\* makepkg are each launched at most once, the stages that are started come in the
\* fixed order validate, extract, parse, debtap, trust validation, manual build, each
\* at most once, and once an error is on its way to the caller no further stage is
\* started and no further command launched.
C21_NoRetryFixedOrder ==
    /\ [](/\ Launches("debtap") <= 1
          /\ Launches("makepkg") <= 1
          /\ StagesInOrder)
    /\ [][(pc \in {"failing", "raised"}) => (stages' = stages /\ trace' = trace)]_vars

\* debtap failed, the manual builder took over, makepkg failed, convert raised
C21_Witness ==
    /\ arg.api = "convert" /\ pc = "raised" /\ err = "ConversionError"
    /\ stages = <<"validate", "extract", "parse", "debtap", "manual", "build">>
    /\ Launches("debtap") = 1 /\ Launches("makepkg") = 1


\* convert raised the ConversionError of the build step of the manual or the tarball
\* builder: makepkg exited non-zero, or exited 0 and left no package file
BuildFailed ==
    /\ arg.api = "convert" /\ pc = "raised" /\ err = "ConversionError"
    /\ stages[Len(stages)] = "build"

\* C22 as stated: when the build step fails with ConversionError, because makepkg
\* exited non-zero or because it left no package file, convert has released the
\* workspace when the error reaches the caller.
C22_AsStated ==
    BuildFailed => temp_dir = "removed"


\* C24: for tarball input convert goes from the metadata inferred from the file name
\* straight to the tarball builder, whatever prefer_debtap says.  The ar extraction,
\* the control parser, debtap, the trust validator and the manual builder are never
\* started and neither ar nor debtap is launched; a result has used_debtap false,
\* the package of the tarball builder, and empty parsed, mapped and unmapped
\* dependency lists.
C24_TarballStraightToBuilder ==
    (arg.api = "convert" /\ input_format = "tarball") =>
        /\ \A s \in {"extract", "parse", "debtap", "trust", "manual"} : ~Started(s)
        /\ \A c \in {"ar t", "ar x", "debtap --help", "debtap"} : Launches(c) = 0
        /\ Started("build") => stages = <<"validate", "tarball", "build">>
        /\ pc = "returned" =>
              /\ ~ret.used_debtap /\ ret.package_path = "tarball"
              /\ ret.metadata = _parse_tarball_metadata(arg.file.name)
              /\ ret.metadata.dependencies = <<>>
              /\ ret.metadata.mapped_dependencies = <<>>
              /\ ret.metadata.unmapped_dependencies = <<>>

\* a tarball converted with prefer_debtap set
C24_Witness ==
    /\ arg.api = "convert" /\ arg.prefer_debtap /\ input_format = "tarball"
    /\ pc = "returned" /\ ret.package_path = "tarball" /\ ~ret.used_debtap
    /\ trace = <<"makepkg">>


\* validate_input_file raised: the call is over and no format was detected
ValidationFailed == pc \in {"raised", "released"} /\ input_format = None

\* C28: when input validation fails, in convert or in inspect_metadata, no
\* workspace has been created, nothing has been written, no command has been
\* launched and no cleanup_dir call made; and at any time a workspace exists or has
\* existed only for an input that passed validation.
C28_ValidationBeforeWorkspace ==
    /\ ValidationFailed =>
          /\ temp_dir = "none" /\ files = {} /\ trace = <<>> /\ cleanups = 0
          /\ stages = <<"validate">> /\ err = "ConversionError"
    /\ temp_dir # "none" => input_format \in {"deb", "tarball"}

\* inspect_metadata on a file with the .deb suffix that is no ar archive
C28_Witness ==
    /\ arg.api = "inspect" /\ pc = "raised" /\ input_format = None
    /\ arg.file.is_file /\ ~arg.file.magic_ok /\ arg.file.name = "PKG.DEB"
    /\ temp_dir = "none" /\ trace = <<>>


(***************************************************************************)
(* main.py: run_cli.  The engine calls are seen by their outcomes: pc is   *)
(* the line run_cli is at, trace the steps it has taken, package_path the  *)
(* result of convert (None while `result is None`), temp_dir and files the *)
(* workspace of that result, releases the cleanup_workspace calls, err the *)
(* exception under way, ret the exit code and stages the answers typed.    *)
(***************************************************************************)
\* what the user types at a prompt
Answers == {"y", " Yes ", "n", ""}

\* input(...).strip().lower() in {"y", "yes"}
Confirmed(answer) == Lower(StripWs(answer)) \in {"y", "yes"}

\* the payloads convert has extracted into the workspace of a result
WorkspaceContents ==
    {safe_extract_tar(d, PkgrootDir).fs : d \in {a \in DataArchives :
                                                  safe_extract_tar(a, PkgrootDir).err = None}}

InitCli ==
    /\ phase = "cli" /\ arg \in [privileged : BOOLEAN] /\ ret = None
    /\ files = {} /\ nread = 0
    /\ pc = "inspect" /\ input_format = None /\ temp_dir = "none" /\ metadata = None
    /\ artifact = None /\ package_path = None /\ used_debtap = FALSE /\ verdict = None
    /\ err = None /\ cleanups = 0 /\ trace = <<>> /\ stages = <<>> /\ releases = 0
    /\ GuiIdle

\* an exception is raised inside the try block of run_cli
CliRaise(e) ==
    /\ err' = e
    /\ pc' = IF e = "Deb2ArchError" THEN "except" ELSE "finally"

\* _print_metadata(converter, input_path)
CliInspect ==
    /\ phase = "cli" /\ pc = "inspect"
    /\ trace' = Append(trace, "inspect")
    /\ \E out \in {"ok", "Deb2ArchError", "FileNotFoundError"} :
          IF out = "ok" THEN pc' = "ask_convert" /\ UNCHANGED err ELSE CliRaise(out)
    /\ UNCHANGED <<gui, phase, arg, ret, files, nread, input_format, temp_dir, metadata, artifact,
                   package_path, used_debtap, verdict, cleanups, stages, releases>>

\* proceed = input("Proceed with conversion? [y/N]: "): EOFError when stdin is closed
CliAskConvert ==
    /\ phase = "cli" /\ pc = "ask_convert"
    /\ \/ /\ CliRaise("EOFError")
          /\ UNCHANGED <<ret, trace, stages>>
       \/ \E answer \in Answers :
             /\ stages' = Append(stages, answer)
             /\ IF Confirmed(answer)
                THEN /\ trace' = Append(trace, "confirm_convert")
                     /\ pc' = "convert"
                     /\ UNCHANGED <<ret, err>>
                ELSE /\ ret' = "1"
                     /\ pc' = "finally"
                     /\ UNCHANGED <<err, trace>>
    /\ UNCHANGED <<gui, phase, arg, files, nread, input_format, temp_dir, metadata, artifact,
                   package_path, used_debtap, verdict, cleanups, releases>>

\* result = converter.convert(input_path, prefer_debtap=True, ...): a result with its
\* workspace, or an error, raised by convert once it has let go of its workspace
CliConvert ==
    /\ phase = "cli" /\ pc = "convert"
    /\ trace' = Append(trace, "convert")
    /\ \/ \E content \in WorkspaceContents :
             /\ package_path' = "built"
             /\ temp_dir' = "exists"
             /\ files' = content
             /\ pc' = "ask_install"
             /\ UNCHANGED err
       \/ \E e \in {"Deb2ArchError", "FileNotFoundError"} :
             /\ CliRaise(e)
             /\ UNCHANGED <<package_path, temp_dir, files>>
    /\ UNCHANGED <<gui, phase, arg, ret, nread, input_format, metadata, artifact, used_debtap,
                   verdict, cleanups, stages, releases>>

\* proceed_install = input("Install generated package with pacman now? [y/N]: ")
CliAskInstall ==
    /\ phase = "cli" /\ pc = "ask_install"
    /\ \/ /\ CliRaise("EOFError")
          /\ UNCHANGED <<ret, trace, stages>>
       \/ \E answer \in Answers :
             /\ stages' = Append(stages, answer)
             /\ IF Confirmed(answer)
                THEN /\ trace' = Append(trace, "confirm_install")
                     /\ pc' = "install"
                     /\ UNCHANGED <<ret, err>>
                ELSE /\ ret' = "0"
                     /\ pc' = "finally"
                     /\ UNCHANGED <<err, trace>>
    /\ UNCHANGED <<gui, phase, arg, files, nread, input_format, temp_dir, metadata, artifact,
                   package_path, used_debtap, verdict, cleanups, releases>>

\* install_result = installer.install(result.package_path, ...): InstallError is a
\* Deb2ArchError; a missing pkexec or sudo binary at launch is not
CliInstall ==
    /\ phase = "cli" /\ pc = "install"
    /\ trace' = Append(trace, "install")
    /\ \E out \in {"success", "failure", "Deb2ArchError", "FileNotFoundError"} :
          IF out = "success" THEN ret' = "0" /\ pc' = "finally" /\ UNCHANGED err
          ELSE IF out = "failure" THEN ret' = "2" /\ pc' = "finally" /\ UNCHANGED err
          ELSE CliRaise(out) /\ UNCHANGED ret
    /\ UNCHANGED <<gui, phase, arg, files, nread, input_format, temp_dir, metadata, artifact,
                   package_path, used_debtap, verdict, cleanups, stages, releases>>

\* except Deb2ArchError as exc: ... return 2
CliExcept ==
    /\ phase = "cli" /\ pc = "except"
    /\ ret' = "2"
    /\ err' = None
    /\ pc' = "finally"
    /\ UNCHANGED <<gui, phase, arg, files, nread, input_format, temp_dir, metadata, artifact,
                   package_path, used_debtap, verdict, cleanups, trace, stages, releases>>

\* finally: if result is not None: converter.cleanup_workspace(result.temp_dir); then
\* run_cli returns its code, or the exception that is under way leaves it
CliFinally ==
    /\ phase = "cli" /\ pc = "finally"
    /\ IF package_path # None
       THEN /\ releases' = releases + 1
            /\ temp_dir' = cleanup_dir(temp_dir, files, arg.privileged)
       ELSE UNCHANGED <<releases, temp_dir>>
    /\ pc' = IF err = None THEN "exit" ELSE "propagated"
    /\ UNCHANGED <<gui, phase, arg, ret, files, nread, input_format, metadata, artifact,
                   package_path, used_debtap, verdict, err, cleanups, trace, stages>>

NextCli ==
    \/ CliInspect
    \/ CliAskConvert
    \/ CliConvert
    \/ CliAskInstall
    \/ CliInstall
    \/ CliExcept
    \/ CliFinally

SpecCli == InitCli /\ [][NextCli]_vars

\* run_cli is over: it returned a code or an exception left it
CliOver == pc \in {"exit", "propagated"}

\* the steps of the trace come in this order, each at most once
CliStepsInOrder ==
    \E k \in 0..5 :
        trace = SubSeq(<<"inspect", "confirm_convert", "convert", "confirm_install", "install">>,
                       1, k)

\* C29 as stated: whenever convert returned a result, its workspace has been
\* released, by exactly one cleanup_workspace call, when run_cli is over, on every
\* exit path; conversion is started only after the user confirmed it, installation
\* only after a successful conversion and a second confirmation.
C29_AsStated ==
    /\ CliStepsInOrder
    /\ \A i \in 1..Len(trace) : trace[i] = "install" => package_path # None
    /\ (CliOver /\ package_path # None) => (releases = 1 /\ temp_dir = "removed")
    /\ (CliOver /\ package_path = None) => releases = 0

\* the same without the state of the workspace: one cleanup_workspace call is made
\* for a result, none without
C29_OneReleaseCall ==
    /\ CliStepsInOrder
    /\ \A i \in 1..Len(trace) : trace[i] = "install" => package_path # None
    /\ (CliOver /\ package_path # None) => releases = 1
    /\ (CliOver /\ package_path = None) => releases = 0
    /\ ~CliOver => releases = 0


(***************************************************************************)
(* gui.py: the GTK window.  The main thread runs the click handlers and    *)
(* the callbacks handed to GLib.idle_add, one at a time and in the order   *)
(* they were queued; dialog.run() runs a nested main loop, so queued       *)
(* callbacks are dispatched while a dialog is open, and a dialog that is   *)
(* running is modal: no button of the window can be clicked until it is    *)
(* closed.  Worker threads run between these steps in any interleaving.    *)
(* The log lines (_append_log, _log_from_worker) change only the log       *)
(* buffer and are left out of the queue.                                    *)
(***************************************************************************)
MaxWorkers == 3

\* GLib.idle_add(fn, val) called by worker number by
Callback(fn, val, by) == [fn |-> fn, val |-> val, by |-> by]

\* threading.Thread(target=worker, daemon=True).start()
StartWorker(kind) ==
    Append(threads, [kind |-> kind, pc |-> IF kind = "load" THEN "inspect" ELSE "convert",
                     result |-> FALSE, released |-> FALSE])

\* the variables of the engine calls, which the window does not touch
GuiUnused == <<phase, arg, ret, files, nread, pc, input_format, temp_dir, artifact,
               package_path, used_debtap, verdict, err, cleanups, trace, stages, releases>>

\* Deb2ArchWindow.__init__: with a path the metadata load is started, without one
\* the file chooser is opened
InitGui ==
    /\ phase = "gui" /\ arg \in [deb_path : {None, "given"}] /\ ret = None
    /\ files = {} /\ nread = 0
    /\ pc = "idle" /\ input_format = None /\ temp_dir = "none" /\ metadata = None
    /\ artifact = None /\ package_path = None /\ used_debtap = FALSE /\ verdict = None
    /\ err = None /\ cleanups = 0 /\ trace = <<>> /\ stages = <<>> /\ releases = 0
    /\ install_sensitive = FALSE /\ idle_queue = <<>> /\ main_loop = "running"
    /\ IF arg.deb_path # None
       THEN /\ deb_path = "chosen" /\ _busy = TRUE /\ dialogs = <<>>
            /\ threads = <<[kind |-> "load", pc |-> "inspect", result |-> FALSE,
                         released |-> FALSE]>>
       ELSE /\ deb_path = None /\ _busy = FALSE /\ dialogs = <<"chooser">>
            /\ threads = <<>>

\* _load_metadata_async without the test of the busy flag
LoadMetadataAsyncUnguarded ==
    /\ deb_path' = "chosen"
    /\ _busy' = TRUE
    /\ threads' = StartWorker("load")

\* _load_metadata_async, on the main thread
_load_metadata_async ==
    IF _busy
    THEN UNCHANGED <<_busy, deb_path, threads>>
    ELSE /\ deb_path' = "chosen"
         /\ _busy' = TRUE
         /\ threads' = StartWorker("load")

\* _on_open_clicked: _prompt_for_file opens the file chooser
OnOpenClicked ==
    /\ main_loop = "running" /\ dialogs = <<>>
    /\ dialogs' = <<"chooser">>
    /\ UNCHANGED <<GuiUnused, metadata, _busy, deb_path, install_sensitive, idle_queue,
                   threads, main_loop>>

\* _prompt_for_file once dialog.run() has returned: a selected file is loaded
PromptForFile ==
    /\ main_loop = "running"
    /\ dialogs # <<>> /\ dialogs[Len(dialogs)] = "chooser"
    /\ dialogs' = SubSeq(dialogs, 1, Len(dialogs) - 1)
    /\ \E selected \in BOOLEAN :
          /\ selected => Len(threads) < MaxWorkers
          /\ IF selected THEN _load_metadata_async
             ELSE UNCHANGED <<_busy, deb_path, threads>>
    /\ UNCHANGED <<GuiUnused, metadata, install_sensitive, idle_queue, main_loop>>

\* _on_install_clicked up to dialog.run() of _confirm_install
OnInstallClicked ==
    /\ main_loop = "running" /\ dialogs = <<>> /\ install_sensitive
    /\ IF _busy \/ deb_path = None \/ metadata = None
       THEN UNCHANGED dialogs
       ELSE dialogs' = <<"confirm">>
    /\ UNCHANGED <<GuiUnused, metadata, _busy, deb_path, install_sensitive, idle_queue,
                   threads, main_loop>>

\* _on_install_clicked once _confirm_install has returned
ConfirmInstall ==
    /\ main_loop = "running"
    /\ dialogs # <<>> /\ dialogs[Len(dialogs)] = "confirm"
    /\ dialogs' = SubSeq(dialogs, 1, Len(dialogs) - 1)
    /\ \E ok \in BOOLEAN :
          IF ok
          THEN /\ Len(threads) < MaxWorkers
               /\ install_sensitive' = FALSE
               /\ _busy' = TRUE
               /\ threads' = StartWorker("install")
          ELSE UNCHANGED <<install_sensitive, _busy, threads>>
    /\ UNCHANGED <<GuiUnused, metadata, deb_path, idle_queue, main_loop>>

\* _on_cancel_clicked: with an operation running the user is asked first
OnCancelClicked ==
    /\ main_loop = "running" /\ dialogs = <<>>
    /\ IF _busy
       THEN dialogs' = <<"cancel">> /\ UNCHANGED main_loop
       ELSE main_loop' = "quit" /\ UNCHANGED dialogs
    /\ UNCHANGED <<GuiUnused, metadata, _busy, deb_path, install_sensitive, idle_queue, threads>>

\* _on_cancel_clicked once the warning dialog has returned
CancelAnswered ==
    /\ main_loop = "running"
    /\ dialogs # <<>> /\ dialogs[Len(dialogs)] = "cancel"
    /\ dialogs' = SubSeq(dialogs, 1, Len(dialogs) - 1)
    /\ \E ok \in BOOLEAN : main_loop' = IF ok THEN "quit" ELSE "running"
    /\ UNCHANGED <<GuiUnused, metadata, _busy, deb_path, install_sensitive, idle_queue, threads>>

\* the main loop dispatches the oldest queued callback: _set_busy, _set_metadata,
\* install_button.set_sensitive, or a message dialog, which opens and runs
DispatchIdle ==
    /\ main_loop = "running" /\ idle_queue # <<>>
    /\ idle_queue' = Tail(idle_queue)
    /\ LET c == Head(idle_queue)
       IN  /\ _busy' = IF c.fn = "_set_busy" THEN c.val ELSE _busy
           /\ metadata' = IF c.fn = "_set_metadata" THEN "parsed" ELSE metadata
           /\ install_sensitive' = IF c.fn = "set_sensitive" THEN c.val ELSE install_sensitive
           /\ dialogs' = IF c.fn \in {"_show_error_dialog", "_show_info_dialog"}
                         THEN Append(dialogs, "message") ELSE dialogs
    /\ UNCHANGED <<GuiUnused, deb_path, threads, main_loop>>

\* _show_error_dialog, _show_info_dialog: the user closes the message
CloseMessage ==
    /\ main_loop = "running"
    /\ dialogs # <<>> /\ dialogs[Len(dialogs)] = "message"
    /\ dialogs' = SubSeq(dialogs, 1, Len(dialogs) - 1)
    /\ UNCHANGED <<GuiUnused, metadata, _busy, deb_path, install_sensitive, idle_queue,
                   threads, main_loop>>

\* the worker of _load_metadata_async up to its finally clause: inspect_metadata
\* returns or raises, and the callbacks of the outcome are queued
LoadWorkerInspect(i) ==
    /\ main_loop = "running"
    /\ threads[i].kind = "load" /\ threads[i].pc = "inspect"
    /\ \E out \in {"ok", "Exception"} :
          idle_queue' = idle_queue \o
              (IF out = "ok"
               THEN <<Callback("_set_metadata", TRUE, i), Callback("set_sensitive", TRUE, i)>>
               ELSE <<Callback("set_sensitive", FALSE, i),
                      Callback("_show_error_dialog", TRUE, i)>>)
    /\ threads' = [threads EXCEPT ![i].pc = "finally"]
    /\ UNCHANGED <<GuiUnused, metadata, _busy, deb_path, install_sensitive, dialogs, main_loop>>

\* finally: GLib.idle_add(self._set_busy, False, "Idle"), the last statement
LoadWorkerFinally(i) ==
    /\ main_loop = "running"
    /\ threads[i].kind = "load" /\ threads[i].pc = "finally"
    /\ idle_queue' = Append(idle_queue, Callback("_set_busy", FALSE, i))
    /\ threads' = [threads EXCEPT ![i].pc = "done"]
    /\ UNCHANGED <<GuiUnused, metadata, _busy, deb_path, install_sensitive, dialogs, main_loop>>

\* the worker of _on_install_clicked: convert returns a result, and _set_busy(True,
\* "Installing package with pacman...") is queued, or it raises
InstallWorkerConvert(i) ==
    /\ main_loop = "running"
    /\ threads[i].kind = "install" /\ threads[i].pc = "convert"
    /\ \E out \in {"result", "Deb2ArchError", "Exception"} :
          IF out = "result"
          THEN /\ idle_queue' = Append(idle_queue, Callback("_set_busy", TRUE, i))
               /\ threads' = [threads EXCEPT ![i].pc = "install", ![i].result = TRUE]
          ELSE /\ idle_queue' = Append(idle_queue, Callback("_show_error_dialog", TRUE, i))
               /\ threads' = [threads EXCEPT ![i].pc = "cleanup"]
    /\ UNCHANGED <<GuiUnused, metadata, _busy, deb_path, install_sensitive, dialogs, main_loop>>

\* installer.install returns a success or a failure, or raises
InstallWorkerInstall(i) ==
    /\ main_loop = "running"
    /\ threads[i].kind = "install" /\ threads[i].pc = "install"
    /\ \E out \in {"success", "failure", "Deb2ArchError", "Exception"} :
          idle_queue' = Append(idle_queue,
                               Callback(IF out = "success" THEN "_show_info_dialog"
                                        ELSE "_show_error_dialog", TRUE, i))
    /\ threads' = [threads EXCEPT ![i].pc = "cleanup"]
    /\ UNCHANGED <<GuiUnused, metadata, _busy, deb_path, install_sensitive, dialogs, main_loop>>

\* finally: if result is not None: self.converter.cleanup_workspace(result.temp_dir)
InstallWorkerCleanup(i) ==
    /\ main_loop = "running"
    /\ threads[i].kind = "install" /\ threads[i].pc = "cleanup"
    /\ threads' = [threads EXCEPT ![i].pc = "clear", ![i].released = threads[i].result]
    /\ UNCHANGED <<GuiUnused, metadata, _busy, deb_path, install_sensitive, idle_queue, dialogs,
                   main_loop>>

\* finally: GLib.idle_add(self._set_busy, False, "Idle")
InstallWorkerClear(i) ==
    /\ main_loop = "running"
    /\ threads[i].kind = "install" /\ threads[i].pc = "clear"
    /\ idle_queue' = Append(idle_queue, Callback("_set_busy", FALSE, i))
    /\ threads' = [threads EXCEPT ![i].pc = "sensitive"]
    /\ UNCHANGED <<GuiUnused, metadata, _busy, deb_path, install_sensitive, dialogs, main_loop>>

\* finally: GLib.idle_add(self.install_button.set_sensitive, self.metadata is not None),
\* the last statement of the worker
InstallWorkerSensitive(i) ==
    /\ main_loop = "running"
    /\ threads[i].kind = "install" /\ threads[i].pc = "sensitive"
    /\ idle_queue' = Append(idle_queue, Callback("set_sensitive", metadata # None, i))
    /\ threads' = [threads EXCEPT ![i].pc = "done"]
    /\ UNCHANGED <<GuiUnused, metadata, _busy, deb_path, install_sensitive, dialogs, main_loop>>

NextGui ==
    \/ OnOpenClicked
    \/ PromptForFile
    \/ OnInstallClicked
    \/ ConfirmInstall
    \/ OnCancelClicked
    \/ CancelAnswered
    \/ DispatchIdle
    \/ CloseMessage
    \/ \E i \in DOMAIN threads : LoadWorkerInspect(i)
    \/ \E i \in DOMAIN threads : LoadWorkerFinally(i)
    \/ \E i \in DOMAIN threads : InstallWorkerConvert(i)
    \/ \E i \in DOMAIN threads : InstallWorkerInstall(i)
    \/ \E i \in DOMAIN threads : InstallWorkerCleanup(i)
    \/ \E i \in DOMAIN threads : InstallWorkerClear(i)
    \/ \E i \in DOMAIN threads : InstallWorkerSensitive(i)

SpecGui == InitGui /\ [][NextGui]_vars

\* worker w has not yet queued the callback that clears the busy flag
BeforeClear(w) == w.pc \notin {"sensitive", "done"}

\* the callback clears the busy flag
Clears(c) == c.fn = "_set_busy" /\ ~c.val

\* worker w has made its last engine call, the release of the workspace of a
\* result included
EngineCallsOver(w) ==
    /\ w.pc \in {"finally", "clear", "sensitive", "done"}
    /\ w.result => w.released

\* C30 as stated: at most one worker thread is running at any time, and a callback
\* that clears the busy flag is queued by a worker only after its last engine call.
C30_AsStated ==
    /\ Cardinality({i \in DOMAIN threads : threads[i].pc # "done"}) <= 1
    /\ \A k \in DOMAIN idle_queue :
          Clears(idle_queue[k]) => EngineCallsOver(threads[idle_queue[k].by])

\* C30: at most one worker is at or before the statement that queues its clearing
\* callback, and none is while the busy flag is clear; a worker is started only by
\* a main-thread step that finds the flag clear and sets it; the flag is cleared
\* only by dispatching a callback that a worker queued after its last engine call
\* and after releasing the workspace of its result.
C30_OneWorkerInEngineCalls ==
    /\ [](/\ Cardinality({i \in DOMAIN threads : BeforeClear(threads[i])}) <= 1
          /\ ~_busy => \A i \in DOMAIN threads : ~BeforeClear(threads[i])
          /\ \A k \in DOMAIN idle_queue :
                Clears(idle_queue[k]) => EngineCallsOver(threads[idle_queue[k].by]))
    /\ [][Len(threads') > Len(threads) => (~_busy /\ _busy')]_vars
    /\ [][(_busy /\ ~_busy') =>
             /\ idle_queue # <<>> /\ Clears(Head(idle_queue))
             /\ EngineCallsOver(threads[Head(idle_queue).by])
             /\ idle_queue' = Tail(idle_queue) /\ threads' = threads]_vars

\* the install worker has queued its clearing callback and not yet its last one,
\* the callback has been dispatched, and the load started after it is in its
\* engine call
C30_Witness ==
    /\ Len(threads) = 3
    /\ threads[2].kind = "install" /\ threads[2].pc = "sensitive"
    /\ threads[3].kind = "load" /\ threads[3].pc = "inspect"
    /\ _busy

====
